---------------------------- MODULE Spec2Model ----------------------------
(***************************************************************************)
(* Data-access layer of the news front end: the batch resolver, the file   *)
(* fetcher, the batch caches and the aggregate accessors, in their four    *)
(* implementations:                                                        *)
(*   "cached"    src/src/lib/utils.ts     (build time, module-level caches)*)
(*   "uncached"  src/src/lib/api.ts       (build time, no cache)           *)
(*   "browser"   src/src/scripts/main.js  (client fallback)                *)
(*   "store"     src/reference/store.ts + src/reference/api.ts             *)
(* A call runs synchronously up to a network request, is suspended while  *)
(* the request is in flight, and is resumed by the response.  `call` is    *)
(* the call looked at; in the store and cache systems other calls are in   *)
(* flight beside it (`tasks`).  The systems:                               *)
(*   Spec        the accessors, one call at a time                         *)
(*   SpecBatch   getBatchId on its own                                     *)
(*   SpecSearch  searchNews and the meta operations                        *)
(*   SpecFetch   fetchFile, fetchFileUncached, fetchNewsRawBatch           *)
(*   SpecEquiv   one same call made of utils.ts, api.ts and main.js        *)
(*   SpecStore   fetchCoreData and fetchNewsRaw of the store, interleaved  *)
(*   SpecClusters fetchNewsArticles and fetchNewsArticleById               *)
(*   SpecCache   fetchFile and fetchNewsRawBatch of utils.ts, interleaved, *)
(*               against a remote API that publishes new items             *)
(*   SpecMeta    fetchMeta calls interleaved, the remote API publishing    *)
(*   SpecLive    the fetches with the timers of their AbortControllers     *)
(*   SpecPage    the browser document: src/public/scripts/router.js and    *)
(*               renderer.js (`page`)                                      *)
(***************************************************************************)
EXTENDS Integers, Sequences, FiniteSets, TLC

\* ------------------------------------------------------------------ bounds

\* Longest id list handed to fetchNewsRawByIds / fetchNewsRaw.
MaxIds == 3
\* Largest small `limit` argument (a limit above the batch size is added).
MaxLimit == 5
\* Largest id handed to getBatchId on its own.
MaxN == 250
\* The raw items the remote API holds at most, new ones included.
MaxRaw == 11

\* -------------------------------------------------------- program constants

\* Items per batch file.
BatchSize == 100

\* ------------------------------------------------------------ the remote API

\* News items and clusters are identified by their id; a raw item has a
\* title and a body (`article`).  A string is the sequence of its characters.
Item(n) ==
  [id      |-> n,
   title   |-> CASE n % 4 = 0 -> <<"A", "b">>
                 [] n % 4 = 1 -> <<"b", "C">>
                 [] n % 4 = 2 -> <<"c", "a">>
                 [] OTHER     -> <<"B">>,
   article |-> CASE n % 3 = 0 -> <<"c", " ", "a">>
                 [] n % 3 = 1 -> <<"a", "B">>
                 [] OTHER     -> <<"b", "b">>]

\* The data sets the remote API may hold: the ids of the raw items, the ids
\* of the clusters, the rows of tag_articles, the batches whose file
\* exists with an empty list, and, for the files the API answers in one fixed
\* way, that answer.
World1 ==
  [raw      |-> {10, 30, 50, 120, 200, 203, 204, 205, 206, 207},
   clusters |-> {100, 150},
   tags     |-> << [tag_id |-> 5, articles |-> <<200, 50, 75>>],
                   [tag_id |-> 7, articles |-> << >>] >>,
   empties  |-> {},
   answers  |-> [x \in {} |-> 0]]

World2 ==
  [raw      |-> {10, 75, 98, 99, 100, 101, 102},
   clusters |-> {5},
   tags     |-> << [tag_id |-> 5, articles |-> <<75, 10, 101>>] >>,
   empties  |-> {200},
   answers  |-> [x \in {} |-> 0]]

Worlds == {World1, World2}

\* A data set whose clusters lie in several batches; news_articles.300
\* exists and is an empty list.
World3 ==
  [raw      |-> {10, 120},
   clusters |-> {5, 100, 150, 250},
   tags     |-> << >>,
   empties  |-> {300},
   answers  |-> [x \in {} |-> 0]]

\* The arguments the accessors are called with.
IdArgs == {10, 30, 75, 120}
ArticleIdArgs == {5, 100, 150, 250}
TagArgs == {5, 7, 9}
LimitArgs == (1..MaxLimit) \cup {BatchSize + 1}
BaseFiles == {"meta", "tag_articles"}

Impls == {"cached", "uncached", "browser", "store"}

\* How a request can end.  "timeout" is the abort of the AbortController,
\* which only fetchFile and fetchFileUncached install.
Outcomes == {"ok", "http_error", "network_error", "timeout"}

Max(S) == CHOOSE x \in S : \A y \in S : y <= x

RECURSIVE Ascending(_)
Ascending(S) ==
  IF S = {} THEN << >>
  ELSE LET m == CHOOSE x \in S : \A y \in S : x <= y
       IN  <<m>> \o Ascending(S \ {m})

\* `${file}.json` for an unbatched resource, `${file}.${batchStart}.json`
\* for a batch file.
BaseFile(name) == [name |-> name, batch |-> << >>]
BatchFile(name, batchStart) == [name |-> name, batch |-> <<batchStart>>]

InBatch(S, b) == {n \in S : b <= n /\ n < b + BatchSize}

\* The decoded JSON body the remote API serves for a file.
RemoteBody(w, f) ==
  IF f.name = "meta" THEN
    [tables |-> [news_raw      |-> [latest_id |-> Max(w.raw)],
                 news_articles |-> [latest_id |-> Max(w.clusters)]]]
  ELSE IF f.name = "tag_articles" THEN w.tags
  ELSE IF f.name \in {"news_sources", "tags"} THEN <<[id |-> 1]>>
  ELSE IF f.name = "news_raw" THEN
    [i \in 1..Cardinality(InBatch(w.raw, f.batch[1])) |->
        Item(Ascending(InBatch(w.raw, f.batch[1]))[i])]
  ELSE IF f.batch = << >> THEN
    [i \in 1..Cardinality(w.clusters) |-> Item(Ascending(w.clusters)[i])]
  ELSE
    [i \in 1..Cardinality(InBatch(w.clusters, f.batch[1])) |->
        Item(Ascending(InBatch(w.clusters, f.batch[1]))[i])]

\* A batch file exists when the batch holds an item or is one of the empty
\* ones; a request for a file that does not exist is answered 404.
RemoteHas(w, f) ==
  \/ f.batch = << >>
  \/ /\ f.name = "news_raw"
     /\ f.batch[1] % BatchSize = 0
     /\ InBatch(w.raw, f.batch[1]) # {} \/ f.batch[1] \in w.empties
  \/ /\ f.name = "news_articles"
     /\ f.batch[1] % BatchSize = 0
     /\ InBatch(w.clusters, f.batch[1]) # {} \/ f.batch[1] \in w.empties

\* ------------------------------------------------------------- pure helpers

getBatchId_nearest(newsId) ==
  ((newsId + BatchSize \div 2) \div BatchSize) * BatchSize

getBatchId_plus_one(newsId) == (newsId \div BatchSize) * BatchSize + BatchSize

getBatchId(newsId) == (newsId \div BatchSize) * BatchSize

Ids(items) == [i \in 1..Len(items) |-> items[i].id]

Range(s) == {s[i] : i \in 1..Len(s)}

\* Array.prototype.find: the first element with the id, or `none`.
Find(items, id, none) ==
  IF \E i \in 1..Len(items) : items[i].id = id
  THEN items[CHOOSE i \in 1..Len(items) :
               /\ items[i].id = id
               /\ \A j \in 1..(i - 1) : items[j].id # id]
  ELSE none

\* Array.prototype.slice(0, limit) for limit >= 0.
Slice(s, limit) == SubSeq(s, 1, IF limit < Len(s) THEN limit ELSE Len(s))

\* Array.prototype.sort is stable: an element is inserted behind every
\* element whose key is not larger.
RECURSIVE InsertByKey(_, _)
InsertByKey(p, s) ==
  IF s = << >> THEN <<p>>
  ELSE IF p.key < Head(s).key THEN <<p>> \o s
  ELSE <<Head(s)>> \o InsertByKey(p, Tail(s))

RECURSIVE SortKeyed(_)
SortKeyed(s) ==
  IF s = << >> THEN << >>
  ELSE InsertByKey(s[Len(s)], SortKeyed(SubSeq(s, 1, Len(s) - 1)))

\* ------------------------------------------------------------------- state

VARIABLES
  remote,             \* the data set the remote API serves
  impl,               \* the implementation this process runs
  fileCache,          \* utils.ts: fileCache
  newsRawBatchCache,  \* utils.ts: newsRawBatchCache
  newsArticleCache,   \* utils.ts: newsArticleCache
  storeRawCache,      \* store.ts: state.newsRawCache
  call,               \* the accessor call in flight, or the last one
  ret,                \* what the last completed call returned or raised
  env,                \* import.meta.env.NEWS_STATIC_ARTICLE_LIMIT
  storeMeta,          \* store.ts: state.meta
  seen,               \* what each implementation returned for one same call
  storeCore,          \* store.ts: the core lists, isLoaded, isLoading, error
  tasks,              \* the other calls in flight, suspended at their await
  newsArticlesCache,  \* utils.ts: newsArticlesCache
  page                \* the browser: the document, its history, the router

vars == <<remote, impl, fileCache, newsRawBatchCache, newsArticleCache,
          storeRawCache, call, ret, env, storeMeta, seen, storeCore, tasks,
          newsArticlesCache, page>>

\* What the accessors of the data layer proper never write.
others == <<env, storeMeta, seen, storeCore, tasks, newsArticlesCache, page>>

caches == <<fileCache, newsRawBatchCache, newsArticleCache, storeRawCache>>

Empty == [x \in {} |-> 0]

\* No call in flight.
Idle ==
  [op |-> "none", pc |-> "idle", args |-> << >>, stage |-> "", slots |-> << >>,
   todo |-> << >>, results |-> << >>, hits |-> {}, had |-> {},
   snapshot |-> [x \in {} |-> 0]]

NoRet == [kind |-> "none"]
\* The store's meta before it is loaded.
Null == [js |-> "null"]
\* The store as it is created.
NotLoaded ==
  [sources |-> << >>, tags |-> << >>, tag_articles |-> << >>,
   isLoaded |-> FALSE, isLoading |-> FALSE, error |-> Null]
\* No call is being compared across the implementations.
Unseen == [plan |-> [op |-> "none"], results |-> [x \in {} |-> 0]]
Value(v) == [kind |-> "value", val |-> v]
\* The error of a failed fetch: `Failed to fetch ${file}.json: ${status}`
\* for a response that is not ok, the AbortError of the abort, and the
\* TypeError of a failed connection.
Raised(f, o) ==
  [kind |-> "raised",
   err  |-> IF o = "http_error" THEN [type |-> "Error", file |-> f, status |-> "not ok"]
            ELSE IF o = "timeout" THEN [type |-> "AbortError"]
            ELSE [type |-> "TypeError"]]

\* ------------------------------------------------------ the browser document

\* The state object and the URL of a history entry.  `{ id }` is a state of
\* type "undefined"; the entry a document is loaded into has no state.
HistoryState(id, type) == [id |-> id, type |-> type]
NullState == HistoryState(0, "null")
Url(kind, id) == [kind |-> kind, id |-> id]

\* What <main> holds: the page as it was served ("static"), the loading
\* indicator, an article or a cluster, the error box with its message, or
\* nothing.
Content(kind, id, text) == [kind |-> kind, id |-> id, text |-> text]

\* A call of renderArticle or renderCluster in flight: fn is what it
\* renders, nav whether navigateToArticle or navigateToCluster made it, pc
\* the await it is suspended at; sources, tags and raw are the values the
\* three fetches of its Promise.all have resolved to.
NewRender(fn, id, nav, pc) ==
  [fn |-> fn, id |-> id, nav |-> nav, pc |-> pc,
   sources |-> "", tags |-> "", raw |-> ""]

\* A document as it is loaded: the module state of router.js and
\* renderer.js is fresh and the history the scripts can reach is the
\* document's own entry.  event is the kind of the event handled last.
Document(kind, id) ==
  [main         |-> Content("static", id, ""),
   entries      |-> <<[state |-> NullState, url |-> Url(kind, id)]>>,
   at           |-> 1,
   articleCache |-> {},
   clusterCache |-> {},
   sourcesCache |-> "null",
   tagsCache    |-> "null",
   renders      |-> << >>,
   event        |-> "load"]

StaticPage == Document("home", 0)

Init ==
  /\ remote \in Worlds
  /\ impl \in Impls
  /\ fileCache = Empty
  /\ newsRawBatchCache = Empty
  /\ newsArticleCache = Empty
  /\ storeRawCache = Empty
  /\ call = Idle
  /\ ret = NoRet
  /\ env = << >>
  /\ newsArticlesCache = Empty
  /\ storeMeta = Null
  /\ seen = Unseen
  /\ storeCore = NotLoaded
  /\ tasks = << >>
  /\ page = StaticPage

\* A new call can start when none is in flight.
Ready == call.pc = "idle"

\* The requests of the current call: a sequence of [file, st], st the
\* outcome once the response arrived.
Request(f) == [file |-> f, st |-> "inflight"]

\* The outcomes the request for f can have.
OutcomesOf(f, withTimeout) ==
  IF f \in DOMAIN remote.answers THEN {remote.answers[f]}
  ELSE (IF RemoteHas(remote, f) THEN Outcomes ELSE Outcomes \ {"ok"})
         \ (IF withTimeout THEN {} ELSE {"timeout"})

Answer(slots, i, o) == [slots EXCEPT ![i].st = o]

\* The files the caches of utils.ts hold.
CachedFiles ==
  DOMAIN fileCache \cup {BatchFile("news_raw", b) : b \in DOMAIN newsRawBatchCache}

\* A call that has just been entered.  slots are its requests, hits the
\* files it took from a cache, had the files cached when it was entered.
NewCall(op, args) ==
  [op |-> op, pc |-> "wait", args |-> args, stage |-> "", slots |-> << >>,
   todo |-> << >>, results |-> << >>, hits |-> {}, had |-> CachedFiles,
   snapshot |-> Empty]

Done(c) == [c EXCEPT !.pc = "done"]

\* ------------------------------------------------------------ getBatchId

\* The resolver on its own: every id up to MaxN is an input; `from` is the
\* result the argument was made of, if it was made of one.
InitBatch ==
  /\ remote = World1
  /\ impl = "cached"
  /\ fileCache = Empty
  /\ newsRawBatchCache = Empty
  /\ newsArticleCache = Empty
  /\ storeRawCache = Empty
  /\ call \in {NewCall("getBatchId", [n |-> n, from |-> << >>]) : n \in 0..MaxN}
  /\ ret = NoRet
  /\ env = << >>
  /\ newsArticlesCache = Empty
  /\ storeMeta = Null
  /\ seen = Unseen
  /\ storeCore = NotLoaded
  /\ tasks = << >>
  /\ page = StaticPage

GetBatchId ==
  /\ call.op = "getBatchId" /\ call.pc = "wait"
  /\ call' = Done(call)
  /\ ret' = Value(getBatchId(call.args.n))
  /\ UNCHANGED <<remote, impl, others, caches>>

\* The result goes into getBatchId again, as such or as the batch of the
\* id at offset k: fetchNewsRawBatch(batchId) resolves the batch id it is
\* handed once more.
Reapply(k) ==
  /\ call.op = "getBatchId" /\ call.pc = "done"
  /\ call' = NewCall("getBatchId", [n |-> ret.val + k, from |-> <<ret.val>>])
  /\ ret' = NoRet
  /\ UNCHANGED <<remote, impl, others, caches>>

SpecBatch ==
  InitBatch /\ [][GetBatchId \/ \E k \in 0..(BatchSize - 1) : Reapply(k)]_vars

\* ---------------------------------------------------------------- return

\* The caller takes the result of the completed call.
Return ==
  /\ call.pc = "done"
  /\ call' = Idle
  /\ ret' = NoRet
  /\ UNCHANGED <<remote, impl, others, caches>>

\* ------------------------------------------- fetchFile / fetchFileUncached

\* fetchFile memoizes in utils.ts only.
Memoized == impl = "cached"

FetchFile_no_memo(name) ==
  /\ Ready
  /\ impl \in {"cached", "uncached"}
  /\ call' = [NewCall("fetchFile", [file |-> name])
                EXCEPT !.slots = <<Request(BaseFile(name))>>]
  /\ ret' = NoRet
  /\ UNCHANGED <<remote, impl, others, caches>>

\* fetchFile up to its `await fetch(...)`.
FetchFile(name) ==
  /\ Ready
  /\ impl \in {"cached", "uncached"}
  /\ IF Memoized /\ BaseFile(name) \in DOMAIN fileCache
     THEN /\ call' = [Done(NewCall("fetchFile", [file |-> name]))
                        EXCEPT !.hits = {BaseFile(name)}]
          /\ ret' = Value(fileCache[BaseFile(name)])
     ELSE /\ call' = [NewCall("fetchFile", [file |-> name])
                        EXCEPT !.slots = <<Request(BaseFile(name))>>]
          /\ ret' = NoRet
  /\ UNCHANGED <<remote, impl, others, caches>>

FetchFileResponse_retry(o) ==
  /\ call.op = "fetchFile" /\ call.pc = "wait"
  /\ LET f == call.slots[1].file IN
     /\ o \in OutcomesOf(f, TRUE)
     /\ call' = Done([call EXCEPT !.slots = Answer(@, 1, o) \o <<[file |-> f, st |-> o]>>])
     /\ ret' = IF o = "ok" THEN Value(RemoteBody(remote, f)) ELSE Raised(f, o)
  /\ UNCHANGED <<remote, impl, others, caches>>

\* fetchFile from the response on: a response that is not ok and a rejected
\* fetch raise, a body is stored in fileCache and returned.
FetchFileResponse(o) ==
  /\ call.op = "fetchFile" /\ call.pc = "wait"
  /\ LET f == call.slots[1].file IN
     /\ o \in OutcomesOf(f, TRUE)
     /\ call' = Done([call EXCEPT !.slots = Answer(@, 1, o)])
     /\ IF o = "ok"
        THEN /\ ret' = Value(RemoteBody(remote, f))
             /\ fileCache' = IF Memoized
                             THEN (f :> RemoteBody(remote, f)) @@ fileCache
                             ELSE fileCache
        ELSE /\ ret' = Raised(f, o)
             /\ UNCHANGED fileCache
  /\ UNCHANGED <<remote, impl, others, newsRawBatchCache, newsArticleCache, storeRawCache>>

\* fetchFileUncached of utils.ts up to its `await fetch(...)`.
FetchFileUncached(name) ==
  /\ Ready
  /\ impl = "cached"
  /\ call' = [NewCall("fetchFileUncached", [file |-> name])
                EXCEPT !.slots = <<Request(BaseFile(name))>>]
  /\ ret' = NoRet
  /\ UNCHANGED <<remote, impl, others, caches>>

\* The response: the body is returned, a failure is raised; nothing is kept.
FetchFileUncachedResponse(o) ==
  /\ call.op = "fetchFileUncached" /\ call.pc = "wait"
  /\ LET f == call.slots[1].file IN
     /\ o \in OutcomesOf(f, TRUE)
     /\ call' = Done([call EXCEPT !.slots = Answer(@, 1, o)])
     /\ ret' = IF o = "ok" THEN Value(RemoteBody(remote, f)) ELSE Raised(f, o)
  /\ UNCHANGED <<remote, impl, others, caches>>

\* -------------------------------------------------------- fetchNewsRawBatch

\* Only utils.ts keeps fetched batches.
BatchCached(b) == impl = "cached" /\ b \in DOMAIN newsRawBatchCache

\* fetchFileUncached installs a timeout; the plain fetch of api.ts, main.js
\* and reference/api.ts does not.
BatchTimeout == impl = "cached"

\* What fetchNewsRawBatch hands back for an outcome of its request.
BatchOf(f, o) == IF o = "ok" THEN RemoteBody(remote, f) ELSE << >>

BatchThrows_always == TRUE

\* fetchNewsRawBatch of reference/api.ts throws where the others catch.
BatchThrows == impl = "store"

CacheAfter_nonempty(cache, b, f, o) ==
  IF impl = "cached" /\ o = "ok" /\ RemoteBody(remote, f) # << >>
  THEN (b :> RemoteBody(remote, f)) @@ cache
  ELSE cache

CacheAfter_also_failed(cache, b, f, o) ==
  IF impl = "cached" THEN (b :> BatchOf(f, o)) @@ cache ELSE cache

CacheAfter_reordered(cache, b, f, o) ==
  IF impl = "cached" /\ o = "ok"
  THEN (b :> [i \in 1..Len(RemoteBody(remote, f)) |->
                RemoteBody(remote, f)[Len(RemoteBody(remote, f)) + 1 - i]]) @@ cache
  ELSE cache

\* The batch cache after the response: a fetched list is stored, also an
\* empty one; a failed fetch stores nothing.
CacheAfter(cache, b, f, o) ==
  IF impl = "cached" /\ o = "ok" THEN (b :> RemoteBody(remote, f)) @@ cache
  ELSE cache

\* The file a batch accessor requests: fetchBatch of the browser takes the
\* batch id as given.
RawBatchFile(startId) ==
  BatchFile("news_raw", IF impl = "browser" THEN startId ELSE getBatchId(startId))

FetchNewsRawBatch(startId) ==
  /\ Ready
  /\ LET b == getBatchId(startId)
         c == NewCall("fetchNewsRawBatch", [startId |-> startId])
     IN IF BatchCached(b)
        THEN /\ call' = [Done(c) EXCEPT !.hits = {BatchFile("news_raw", b)}]
             /\ ret' = Value(newsRawBatchCache[b])
        ELSE /\ call' = [c EXCEPT !.slots = <<Request(RawBatchFile(startId))>>]
             /\ ret' = NoRet
  /\ UNCHANGED <<remote, impl, others, caches>>

FetchNewsRawBatchResponse(o) ==
  /\ call.op = "fetchNewsRawBatch" /\ call.pc = "wait"
  /\ LET f == call.slots[1].file IN
     /\ o \in OutcomesOf(f, BatchTimeout)
     /\ call' = Done([call EXCEPT !.slots = Answer(@, 1, o)])
     /\ ret' = IF BatchThrows /\ o # "ok" THEN Raised(f, o)
               ELSE Value(BatchOf(f, o))
     /\ newsRawBatchCache' = CacheAfter(newsRawBatchCache, f.batch[1], f, o)
  /\ UNCHANGED <<remote, impl, others, fileCache, newsArticleCache, storeRawCache>>

\* -------------------------------------------------------- fetchNewsRawByIds

\* The keys of batchGroups in insertion order: the batch of every id, at the
\* place of its first occurrence.
BatchGroups_no_dedupe(ids) == [i \in 1..Len(ids) |-> getBatchId(ids[i])]

RECURSIVE BatchGroups(_)
BatchGroups(ids) ==
  IF ids = << >> THEN << >>
  ELSE LET rest == BatchGroups(SubSeq(ids, 1, Len(ids) - 1))
           b    == getBatchId(ids[Len(ids)])
       IN  IF b \in Range(rest) THEN rest ELSE Append(rest, b)

FilterBatch_all(batch, ids, b) == batch

\* batch.filter((item) => idsInBatch.includes(item.id))
FilterBatch(batch, ids, b) ==
  SelectSeq(batch, LAMBDA item :
    \E i \in 1..Len(ids) : ids[i] = item.id /\ getBatchId(ids[i]) = b)

\* idOrder.get(id) || 0: the index of the last occurrence of id in ids.
IdOrder(ids, id) ==
  IF id \in Range(ids) THEN Max({i \in 1..Len(ids) : ids[i] = id}) - 1 ELSE 0

Unkeyed(s) == [i \in 1..Len(s) |-> s[i].item]

SortByIdOrder_unsorted(results, ids) == results

\* results.sort((a, b) => (idOrder.get(a.id) || 0) - (idOrder.get(b.id) || 0))
SortByIdOrder(results, ids) ==
  Unkeyed(SortKeyed([i \in 1..Len(results) |->
    [key |-> IdOrder(ids, results[i].id), item |-> results[i]]]))

\* The loop `for (const [batchId, idsInBatch] of batchGroups)` from its head
\* up to the next request: a cached batch is used at once.
RECURSIVE ByIdsLoop(_, _)
ByIdsLoop(c, cache) ==
  IF c.todo = << >> THEN Done(c)
  ELSE LET b == Head(c.todo) IN
       IF impl = "cached" /\ b \in DOMAIN cache
       THEN ByIdsLoop([c EXCEPT
              !.todo = Tail(@),
              !.results = @ \o FilterBatch(cache[b], c.args.ids, b),
              !.hits = @ \cup {BatchFile("news_raw", b)}], cache)
       ELSE [c EXCEPT !.slots = Append(@, Request(BatchFile("news_raw", b)))]

FetchNewsRawByIds(ids) ==
  /\ Ready
  /\ impl # "store"
  /\ LET c == [NewCall("fetchNewsRawByIds", [ids |-> ids])
                 EXCEPT !.stage = "batches", !.todo = BatchGroups(ids)]
     IN /\ call' = ByIdsLoop(c, newsRawBatchCache)
        /\ ret' = IF call'.pc = "done"
                  THEN Value(SortByIdOrder(call'.results, ids))
                  ELSE NoRet
  /\ UNCHANGED <<remote, impl, others, caches>>

\* The response to the request of the batch at the head of the loop: the
\* batch is cached (utils.ts), filtered and appended, and the loop goes on.
FetchNewsRawByIdsResponse(o) ==
  /\ call.op \in {"fetchNewsRawByIds", "fetchNewsByTag"}
  /\ impl # "browser" \/ call.op = "fetchNewsRawByIds"
  /\ call.stage = "batches" /\ call.pc = "wait"
  /\ LET n == Len(call.slots)
         f == call.slots[n].file
         b == Head(call.todo)
         c == [call EXCEPT
                 !.slots = Answer(@, n, o),
                 !.todo = Tail(@),
                 !.results = @ \o FilterBatch(BatchOf(f, o), call.args.ids, b)]
     IN /\ o \in OutcomesOf(f, BatchTimeout)
        /\ newsRawBatchCache' = CacheAfter(newsRawBatchCache, b, f, o)
        /\ call' = ByIdsLoop(c, CacheAfter(newsRawBatchCache, b, f, o))
        /\ ret' = IF call'.pc = "done"
                  THEN Value(SortByIdOrder(call'.results, call.args.ids))
                  ELSE NoRet
  /\ UNCHANGED <<remote, impl, others, fileCache, newsArticleCache, storeRawCache>>

\* --------------------------------------------------------- fetchNewsRawById

\* What the by-id accessors hand back when no item has the id: undefined in
\* utils.ts and api.ts, null (`find(...) || null`) in the browser.
NotFound == IF impl = "browser" THEN [js |-> "null"] ELSE [js |-> "undefined"]

FindById_first_item(batch, id) == IF batch = << >> THEN NotFound ELSE batch[1]

\* batch.find((item) => item.id === id)
FindById(batch, id) == Find(batch, id, NotFound)

FetchNewsRawById(id) ==
  /\ Ready
  /\ impl # "store"
  /\ LET b == getBatchId(id)
         c == NewCall("fetchNewsRawById", [id |-> id])
     IN IF BatchCached(b)
        THEN /\ call' = [Done(c) EXCEPT !.hits = {BatchFile("news_raw", b)}]
             /\ ret' = Value(FindById(newsRawBatchCache[b], id))
        ELSE /\ call' = [c EXCEPT !.slots = <<Request(BatchFile("news_raw", b))>>]
             /\ ret' = NoRet
  /\ UNCHANGED <<remote, impl, others, caches>>

FetchNewsRawByIdResponse(o) ==
  /\ call.op = "fetchNewsRawById" /\ call.pc = "wait"
  /\ LET f == call.slots[1].file IN
     /\ o \in OutcomesOf(f, BatchTimeout)
     /\ call' = Done([call EXCEPT !.slots = Answer(@, 1, o)])
     /\ ret' = Value(FindById(BatchOf(f, o), call.args.id))
     /\ newsRawBatchCache' = CacheAfter(newsRawBatchCache, f.batch[1], f, o)
  /\ UNCHANGED <<remote, impl, others, fileCache, newsArticleCache, storeRawCache>>

\* ------------------------------------ fetchNewsArticleById / fetchClusterById

\* utils.ts looks the cluster cache up under the batch id ...
ArticleCached(id) == impl = "cached" /\ getBatchId(id) \in DOMAIN newsArticleCache

FetchNewsArticleById(id) ==
  /\ Ready
  /\ impl # "store"
  /\ LET c == NewCall("fetchNewsArticleById", [id |-> id]) IN
     IF ArticleCached(id)
     THEN /\ call' = [Done(c) EXCEPT !.hits =
                          {BatchFile("news_articles", getBatchId(id))}]
          /\ ret' = Value(FindById(newsArticleCache[getBatchId(id)], id))
     ELSE /\ call' = [c EXCEPT !.slots =
                        <<Request(BatchFile("news_articles", getBatchId(id)))>>]
          /\ ret' = NoRet
  /\ UNCHANGED <<remote, impl, others, caches>>

\* ... and stores the fetched batch under the id of the article it found.
\* Every failure is caught and answered with the not-found value.  The
\* build-time fetchers install a timeout, the browser's fetch does not.
FetchNewsArticleByIdResponse(o) ==
  /\ call.op = "fetchNewsArticleById" /\ call.pc = "wait"
  /\ LET f == call.slots[1].file
         id == call.args.id
         article == FindById(BatchOf(f, o), id)
     IN /\ o \in OutcomesOf(f, impl # "browser")
        /\ call' = Done([call EXCEPT !.slots = Answer(@, 1, o)])
        /\ ret' = Value(article)
        /\ newsArticleCache' =
             IF impl = "cached" /\ o = "ok" /\ article # NotFound
             THEN (id :> RemoteBody(remote, f)) @@ newsArticleCache
             ELSE newsArticleCache
  /\ UNCHANGED <<remote, impl, others, fileCache, newsRawBatchCache, storeRawCache>>

\* ------------------------------------------------------------ fetchNewsByTag

\* tagArticles.find((t) => t.tag_id === tagId)
HasRow(tagArticles, tagId) == \E i \in 1..Len(tagArticles) : tagArticles[i].tag_id = tagId

RowOf(tagArticles, tagId) ==
  tagArticles[CHOOSE i \in 1..Len(tagArticles) :
                /\ tagArticles[i].tag_id = tagId
                /\ \A j \in 1..(i - 1) : tagArticles[j].tag_id # tagId]

ArticleIds_all(tagArticles, tagId, limit) == RowOf(tagArticles, tagId).articles

\* tagMapping.articles.slice(0, limit)
ArticleIds(tagArticles, tagId, limit) ==
  Slice(RowOf(tagArticles, tagId).articles, limit)

TagResolve_first_row(c, tagArticles, cache) ==
  IF tagArticles = << >> THEN Done(c)
  ELSE LET row == IF HasRow(tagArticles, c.args.tagId)
                  THEN RowOf(tagArticles, c.args.tagId)
                  ELSE tagArticles[1]
           ids == Slice(row.articles, c.args.limit)
       IN  IF ids = << >> THEN Done(c)
           ELSE ByIdsLoop([c EXCEPT !.stage = "batches", !.args.ids = ids,
                                    !.todo = BatchGroups(ids)], cache)

\* fetchNewsByTag of utils.ts and api.ts from the tag_articles list on: no
\* row or an empty row ends the call, else the first `limit` ids go to
\* fetchNewsRawByIds.
TagResolve(c, tagArticles, cache) ==
  IF \/ ~HasRow(tagArticles, c.args.tagId)
     \/ RowOf(tagArticles, c.args.tagId).articles = << >>
  THEN Done(c)
  ELSE LET ids == ArticleIds(tagArticles, c.args.tagId, c.args.limit) IN
       ByIdsLoop([c EXCEPT !.stage = "batches", !.args.ids = ids,
                           !.todo = BatchGroups(ids)], cache)

\* fetchNewsByTag of the browser from the tag_articles list on: one
\* fetchNewsRawById per id, all started before any is awaited.
BrowserTagResolve(c, tagArticles) ==
  IF ~HasRow(tagArticles, c.args.tagId) THEN Done(c)
  ELSE LET ids == ArticleIds(tagArticles, c.args.tagId, c.args.limit) IN
       IF ids = << >> THEN Done([c EXCEPT !.stage = "items"])
       ELSE [c EXCEPT !.stage = "items", !.args.ids = ids,
                      !.slots = @ \o [i \in 1..Len(ids) |->
                         Request(BatchFile("news_raw", getBatchId(ids[i])))]]

TagFile == BaseFile("tag_articles")

FetchNewsByTag(tagId, limit) ==
  /\ Ready
  /\ impl # "store"
  /\ LET c == [NewCall("fetchNewsByTag",
                       [tagId |-> tagId, limit |-> limit, ids |-> << >>])
                 EXCEPT !.stage = "tag"]
     IN IF Memoized /\ TagFile \in DOMAIN fileCache
        THEN call' = TagResolve([c EXCEPT !.hits = {TagFile}],
                                fileCache[TagFile], newsRawBatchCache)
        ELSE call' = [c EXCEPT !.slots = <<Request(TagFile)>>]
  /\ ret' = IF call'.pc = "done"
            THEN Value(SortByIdOrder(call'.results, call'.args.ids))
            ELSE NoRet
  /\ UNCHANGED <<remote, impl, others, caches>>

\* The response to the tag_articles request.  utils.ts and api.ts let the
\* failure of fetchFile pass to the caller; the browser answers it with [].
FetchNewsByTagResponse(o) ==
  /\ call.op = "fetchNewsByTag" /\ call.stage = "tag" /\ call.pc = "wait"
  /\ o \in OutcomesOf(TagFile, impl # "browser")
  /\ LET c == [call EXCEPT !.slots = Answer(@, 1, o)] IN
     IF o # "ok"
     THEN /\ call' = Done(c)
          /\ ret' = IF impl = "browser" THEN Value(<< >>) ELSE Raised(TagFile, o)
          /\ UNCHANGED fileCache
     ELSE /\ call' = IF impl = "browser"
                     THEN BrowserTagResolve(c, RemoteBody(remote, TagFile))
                     ELSE TagResolve(c, RemoteBody(remote, TagFile), newsRawBatchCache)
          /\ ret' = IF call'.pc = "done"
                    THEN Value(SortByIdOrder(call'.results, call'.args.ids))
                    ELSE NoRet
          /\ fileCache' = IF Memoized
                          THEN (TagFile :> RemoteBody(remote, TagFile)) @@ fileCache
                          ELSE fileCache
  /\ UNCHANGED <<remote, impl, others, newsRawBatchCache, newsArticleCache, storeRawCache>>

\* items.filter(Boolean) over the answers of the fetchNewsRawById calls, in
\* the order of the ids: slot i + 1 answers ids[i].
BrowserTagItems(slots, ids) ==
  LET got == [i \in 1..Len(ids) |->
                FindById(BatchOf(slots[i + 1].file, slots[i + 1].st), ids[i])]
  IN  SelectSeq(got, LAMBDA x : x # NotFound)

\* One of the browser's fetchNewsRawById calls is answered; Promise.all
\* resolves with the last of them.
BrowserTagItemResponse(i, o) ==
  /\ call.op = "fetchNewsByTag" /\ call.stage = "items" /\ call.pc = "wait"
  /\ impl = "browser"
  /\ i \in 2..Len(call.slots)
  /\ call.slots[i].st = "inflight"
  /\ o \in OutcomesOf(call.slots[i].file, FALSE)
  /\ LET c == [call EXCEPT !.slots = Answer(@, i, o)] IN
     IF \E j \in 2..Len(c.slots) : c.slots[j].st = "inflight"
     THEN call' = c /\ ret' = NoRet
     ELSE /\ call' = Done([c EXCEPT !.results = BrowserTagItems(c.slots, c.args.ids)])
          /\ ret' = Value(call'.results)
  /\ UNCHANGED <<remote, impl, others, caches>>

\* ----------------------------------------------------------- fetchRecentNews

MetaFile == BaseFile("meta")

\* Math.ceil(limit / batchSize)
NumBatches(limit) == (limit + BatchSize - 1) \div BatchSize

\* allRawIds: latestId - i * batchSize for i < numBatches
RecentStartIds(latestId, limit) ==
  [i \in 1..NumBatches(limit) |-> latestId - (i - 1) * BatchSize]

\* results.sort((a, b) => b.id - a.id)
SortDescById(results) ==
  Unkeyed(SortKeyed([i \in 1..Len(results) |->
    [key |-> 0 - results[i].id, item |-> results[i]]]))

\* The loop `for (const startId of allRawIds)` from its head up to the next
\* request.
RECURSIVE RecentLoop(_, _)
RecentLoop(c, cache) ==
  IF c.todo = << >> THEN Done(c)
  ELSE LET b == getBatchId(Head(c.todo)) IN
       IF impl = "cached" /\ b \in DOMAIN cache
       THEN RecentLoop([c EXCEPT !.todo = Tail(@),
                                 !.results = @ \o cache[b],
                                 !.hits = @ \cup {BatchFile("news_raw", b)}], cache)
       ELSE [c EXCEPT !.slots = Append(@, Request(BatchFile("news_raw", b)))]

RecentResolve(c, meta, cache) ==
  RecentLoop([c EXCEPT !.stage = "batches",
                       !.args.latestId = meta.tables.news_raw.latest_id,
                       !.todo = RecentStartIds(meta.tables.news_raw.latest_id,
                                               c.args.limit)], cache)

RecentResult(c) == Slice(SortDescById(c.results), c.args.limit)

FetchRecentNews(limit) ==
  /\ Ready
  /\ impl \in {"cached", "uncached"}
  /\ LET c == [NewCall("fetchRecentNews", [limit |-> limit, latestId |-> 0])
                 EXCEPT !.stage = "meta"]
     IN IF Memoized /\ MetaFile \in DOMAIN fileCache
        THEN call' = RecentResolve([c EXCEPT !.hits = {MetaFile}],
                                   fileCache[MetaFile], newsRawBatchCache)
        ELSE call' = [c EXCEPT !.slots = <<Request(MetaFile)>>]
  /\ ret' = IF call'.pc = "done" THEN Value(RecentResult(call')) ELSE NoRet
  /\ UNCHANGED <<remote, impl, others, caches>>

\* The response to the meta request: a failure passes to the caller.
FetchRecentNewsMetaResponse(o) ==
  /\ call.op = "fetchRecentNews" /\ call.stage = "meta" /\ call.pc = "wait"
  /\ o \in OutcomesOf(MetaFile, TRUE)
  /\ LET c == [call EXCEPT !.slots = Answer(@, 1, o)] IN
     IF o # "ok"
     THEN /\ call' = Done(c)
          /\ ret' = Raised(MetaFile, o)
          /\ UNCHANGED fileCache
     ELSE /\ call' = RecentResolve(c, RemoteBody(remote, MetaFile), newsRawBatchCache)
          /\ ret' = IF call'.pc = "done" THEN Value(RecentResult(call')) ELSE NoRet
          /\ fileCache' = IF Memoized
                          THEN (MetaFile :> RemoteBody(remote, MetaFile)) @@ fileCache
                          ELSE fileCache
  /\ UNCHANGED <<remote, impl, others, newsRawBatchCache, newsArticleCache, storeRawCache>>

\* The response to the request of the batch at the head of the loop.
FetchRecentNewsBatchResponse(o) ==
  /\ call.op = "fetchRecentNews" /\ call.stage = "batches" /\ call.pc = "wait"
  /\ LET n == Len(call.slots)
         f == call.slots[n].file
         c == [call EXCEPT !.slots = Answer(@, n, o),
                           !.todo = Tail(@),
                           !.results = @ \o BatchOf(f, o)]
     IN /\ o \in OutcomesOf(f, BatchTimeout)
        /\ newsRawBatchCache' = CacheAfter(newsRawBatchCache, f.batch[1], f, o)
        /\ call' = RecentLoop(c, CacheAfter(newsRawBatchCache, f.batch[1], f, o))
        /\ ret' = IF call'.pc = "done" THEN Value(RecentResult(call')) ELSE NoRet
  /\ UNCHANGED <<remote, impl, others, fileCache, newsArticleCache, storeRawCache>>

\* ------------------------------------------------------ store: fetchNewsRaw

\* ids.map(id => cache.get(id)!).filter(Boolean)
MapGet(ids, cache) ==
  LET known == SelectSeq(ids, LAMBDA id : id \in DOMAIN cache)
  IN  [i \in 1..Len(known) |-> cache[known[i]]]

\* cache.set(item.id, item) for every item of the batches
RECURSIVE SetAll(_, _)
SetAll(cache, items) ==
  IF items = << >> THEN cache
  ELSE SetAll((Head(items).id :> Head(items)) @@ cache, Tail(items))

RECURSIVE Flat(_)
Flat(batches) ==
  IF batches = << >> THEN << >> ELSE Head(batches) \o Flat(Tail(batches))

\* fetchNewsRaw up to its `await Promise.all(...)`: one fetchNewsRawBatch per
\* batch of the ids the cache does not hold, all started at once.
StoreFetchNewsRaw(ids) ==
  /\ Ready
  /\ impl = "store"
  /\ LET c == [NewCall("fetchNewsRaw", [ids |-> ids])
                 EXCEPT !.snapshot = storeRawCache]
         uncachedIds == SelectSeq(ids, LAMBDA id : id \notin DOMAIN storeRawCache)
         batchIds == BatchGroups(uncachedIds)
     IN IF uncachedIds = << >>
        THEN /\ call' = Done(c)
             /\ ret' = Value(MapGet(ids, storeRawCache))
        ELSE /\ call' = [c EXCEPT !.slots = [i \in 1..Len(batchIds) |->
                                    Request(BatchFile("news_raw", batchIds[i]))]]
             /\ ret' = NoRet
  /\ UNCHANGED <<remote, impl, others, caches>>

\* One batch request is answered.  fetchNewsRawBatch of reference/api.ts
\* throws on a response that is not ok, Promise.all rejects with it and the
\* catch returns []; with the last good answer the items go into the copy of
\* the cache taken at the start, and the copy replaces state.newsRawCache.
StoreFetchNewsRawResponse(i, o) ==
  /\ call.op = "fetchNewsRaw" /\ call.pc = "wait"
  /\ i \in 1..Len(call.slots)
  /\ call.slots[i].st = "inflight"
  /\ o \in OutcomesOf(call.slots[i].file, FALSE)
  /\ LET c == [call EXCEPT !.slots = Answer(@, i, o)]
         batches == [j \in 1..Len(c.slots) |-> RemoteBody(remote, c.slots[j].file)]
         cache == SetAll(c.snapshot, Flat(batches))
     IN IF o # "ok"
        THEN /\ call' = Done(c)
             /\ ret' = Value(<< >>)
             /\ UNCHANGED storeRawCache
        ELSE IF \E j \in 1..Len(c.slots) : c.slots[j].st = "inflight"
        THEN /\ call' = c
             /\ ret' = NoRet
             /\ UNCHANGED storeRawCache
        ELSE /\ call' = Done(c)
             /\ ret' = Value(MapGet(c.args.ids, cache))
             /\ storeRawCache' = cache
  /\ UNCHANGED <<remote, impl, others, fileCache, newsRawBatchCache, newsArticleCache>>

\* --------------------------------------------------------------- searchNews

ToLowerCase_identity(s) == s

\* String.prototype.toLowerCase, character by character.
ToLowerCase(s) ==
  [i \in 1..Len(s) |-> CASE s[i] = "A" -> "a"
                         [] s[i] = "B" -> "b"
                         [] s[i] = "C" -> "c"
                         [] OTHER      -> s[i]]

\* String.prototype.includes: q occurs in s at some offset.
Includes(s, q) ==
  \E i \in 0..(Len(s) - Len(q)) : SubSeq(s, i + 1, i + Len(q)) = q

\* !query.trim(): nothing is left of the query without its white space.
Blank(query) == \A i \in 1..Len(query) : query[i] = " "

\* parseInt of a string of decimal digits.
RECURSIVE ParseInt(_)
ParseInt(s) ==
  LET digits == <<"0", "1", "2", "3", "4", "5", "6", "7", "8", "9">> IN
  IF s = << >> THEN 0
  ELSE 10 * ParseInt(SubSeq(s, 1, Len(s) - 1))
         + (CHOOSE d \in 1..10 : digits[d] = s[Len(s)]) - 1

\* parseInt(import.meta.env.NEWS_STATIC_ARTICLE_LIMIT || '100'); the variable
\* is not set when env is the empty string.
StaticLimit == ParseInt(IF env = << >> THEN <<"1", "0", "0">> ELSE env)

\* The batches searchNews of utils.ts and api.ts asks for: i * 100 for
\* i < Math.ceil(staticLimit / 100).
SearchStartIds ==
  [i \in 1..NumBatches(StaticLimit) |-> (i - 1) * BatchSize]

\* item.title.toLowerCase().includes(queryLower) ||
\* item.article.toLowerCase().includes(queryLower)
Matches(item, queryLower) ==
  \/ Includes(ToLowerCase(item.title), queryLower)
  \/ Includes(ToLowerCase(item.article), queryLower)

\* allBatches of a search whose promises are all settled: the list taken from
\* the cache at the start, or what fetchNewsRawBatch made of the response.
AllBatches(c) ==
  [j \in 1..Len(c.todo) |->
     IF c.todo[j] \in DOMAIN c.snapshot THEN c.snapshot[c.todo[j]]
     ELSE LET i == CHOOSE k \in 1..Len(c.slots) :
                     c.slots[k].file = BatchFile("news_raw", c.todo[j])
          IN  BatchOf(c.slots[i].file, c.slots[i].st)]

\* allBatches.flat().filter(...).slice(0, limit)
SearchResult(c) ==
  Slice(SelectSeq(Flat(AllBatches(c)),
                  LAMBDA item : Matches(item, ToLowerCase(c.args.query))),
        c.args.limit)

\* searchNews of utils.ts and api.ts up to `await Promise.all(promises)`:
\* every fetchNewsRawBatch is started; a cached batch needs no request.
SearchNews(query, limit) ==
  /\ Ready
  /\ impl \in {"cached", "uncached"}
  /\ LET starts == SearchStartIds
         cached == {b \in Range(starts) : BatchCached(b)}
         missing == SelectSeq(starts, LAMBDA b : b \notin cached)
         c == [NewCall("searchNews", [query |-> query, limit |-> limit])
                 EXCEPT !.stage = "batches",
                        !.todo = starts,
                        !.snapshot = [b \in cached |-> newsRawBatchCache[b]],
                        !.hits = {BatchFile("news_raw", b) : b \in cached},
                        !.slots = [i \in 1..Len(missing) |->
                                     Request(BatchFile("news_raw", missing[i]))]]
     IN IF missing = << >>
        THEN call' = Done(c) /\ ret' = Value(SearchResult(c))
        ELSE call' = c /\ ret' = NoRet
  /\ UNCHANGED <<remote, impl, others, caches>>

\* One of the batch requests is answered; Promise.all resolves with the last.
SearchNewsResponse(i, o) ==
  /\ call.op = "searchNews" /\ call.pc = "wait"
  /\ impl \in {"cached", "uncached"}
  /\ i \in 1..Len(call.slots)
  /\ call.slots[i].st = "inflight"
  /\ LET f == call.slots[i].file
         c == [call EXCEPT !.slots = Answer(@, i, o)]
     IN /\ o \in OutcomesOf(f, BatchTimeout)
        /\ newsRawBatchCache' = CacheAfter(newsRawBatchCache, f.batch[1], f, o)
        /\ IF \E j \in 1..Len(c.slots) : c.slots[j].st = "inflight"
           THEN call' = c /\ ret' = NoRet
           ELSE call' = Done(c) /\ ret' = Value(SearchResult(c))
  /\ UNCHANGED <<remote, impl, others, fileCache, newsArticleCache, storeRawCache>>

\* ------------------------------------------------ store: fetchMeta, searchNews

\* fetchMeta of the store up to its `await fetchFile('meta')`.
StoreFetchMeta ==
  /\ Ready
  /\ impl = "store"
  /\ call' = [NewCall("fetchMeta", << >>) EXCEPT !.slots = <<Request(MetaFile)>>]
  /\ ret' = NoRet
  /\ UNCHANGED <<remote, impl, others, caches>>

\* The response: the body becomes state.meta; a failure is logged and the
\* call resolves all the same.
StoreFetchMetaResponse(o) ==
  /\ call.op = "fetchMeta" /\ call.pc = "wait"
  /\ o \in OutcomesOf(MetaFile, FALSE)
  /\ call' = Done([call EXCEPT !.slots = Answer(@, 1, o)])
  /\ ret' = Value([js |-> "undefined"])
  /\ storeMeta' = IF o = "ok" THEN RemoteBody(remote, MetaFile) ELSE storeMeta
  /\ UNCHANGED <<remote, impl, env, page, newsArticlesCache, seen, storeCore, tasks, caches>>

\* searchNews of the store up to its first `await fetchNewsRawBatch(...)`;
\* it walks the batches i * 100 for i < Math.ceil(latestId / 100).
StoreSearchNews(query) ==
  /\ Ready
  /\ impl = "store"
  /\ LET c == [NewCall("searchNews", [query |-> query]) EXCEPT !.stage = "batches"] IN
     IF Blank(query) \/ storeMeta = Null
     THEN call' = Done(c) /\ ret' = Value(<< >>)
     ELSE LET starts == [i \in 1..NumBatches(storeMeta.tables.news_raw.latest_id) |->
                            (i - 1) * BatchSize] IN
          IF starts = << >>
          THEN call' = Done(c) /\ ret' = Value(<< >>)
          ELSE /\ call' = [c EXCEPT
                             !.todo = starts,
                             !.slots = <<Request(BatchFile("news_raw", Head(starts)))>>]
               /\ ret' = NoRet
  /\ UNCHANGED <<remote, impl, others, caches>>

\* The response to the request of the batch at the head of the loop: the
\* matching items of a fetched batch are appended, a failed batch is skipped,
\* and the next batch is requested.
StoreSearchNewsResponse(o) ==
  /\ call.op = "searchNews" /\ call.pc = "wait"
  /\ impl = "store"
  /\ LET n == Len(call.slots)
         f == call.slots[n].file
         c == [call EXCEPT
                 !.slots = Answer(@, n, o),
                 !.todo = Tail(@),
                 !.results = @ \o SelectSeq(BatchOf(f, o),
                    LAMBDA item : Matches(item, ToLowerCase(call.args.query)))]
     IN /\ o \in OutcomesOf(f, FALSE)
        /\ IF c.todo = << >>
           THEN call' = Done(c) /\ ret' = Value(c.results)
           ELSE /\ call' = [c EXCEPT !.slots =
                              Append(@, Request(BatchFile("news_raw", Head(c.todo))))]
                /\ ret' = NoRet
  /\ UNCHANGED <<remote, impl, others, caches>>

\* ------------------------------------------------------ store: fetchCoreData

CoreFiles == <<BaseFile("news_sources"), BaseFile("tags"), TagFile>>

\* The catch of fetchCoreData: the message of the error becomes state.error.
CoreFailed(c, f, o) ==
  /\ call' = Done(c)
  /\ ret' = Value([js |-> "undefined"])
  /\ storeCore' = [storeCore EXCEPT !.error = [failed |-> f, outcome |-> o],
                                    !.isLoading = FALSE]

FetchCoreData_unguarded ==
  /\ Ready
  /\ impl = "store"
  /\ call' = [NewCall("fetchCoreData", << >>)
                EXCEPT !.snapshot = storeRawCache, !.stage = "meta",
                       !.slots = <<Request(MetaFile)>>]
  /\ ret' = NoRet
  /\ storeCore' = [storeCore EXCEPT !.isLoading = TRUE, !.error = Null]
  /\ UNCHANGED <<remote, impl, env, page, newsArticlesCache, storeMeta, seen, tasks, caches>>

\* fetchCoreData up to its `await fetchFile('meta')`; `state` is the state
\* read at the start.
FetchCoreData ==
  /\ Ready
  /\ impl = "store"
  /\ LET c == [NewCall("fetchCoreData", << >>) EXCEPT !.snapshot = storeRawCache] IN
     IF storeCore.isLoaded \/ storeCore.isLoading
     THEN /\ call' = Done(c)
          /\ ret' = Value([js |-> "undefined"])
          /\ UNCHANGED storeCore
     ELSE /\ call' = [c EXCEPT !.stage = "meta", !.slots = <<Request(MetaFile)>>]
          /\ ret' = NoRet
          /\ storeCore' = [storeCore EXCEPT !.isLoading = TRUE, !.error = Null]
  /\ UNCHANGED <<remote, impl, env, page, newsArticlesCache, storeMeta, seen, tasks, caches>>

\* The response to the meta request: the three core lists are requested.
FetchCoreDataMetaResponse(o) ==
  /\ call.op = "fetchCoreData" /\ call.stage = "meta" /\ call.pc = "wait"
  /\ o \in OutcomesOf(MetaFile, FALSE)
  /\ LET c == [call EXCEPT !.slots = Answer(@, 1, o)] IN
     IF o # "ok" THEN CoreFailed(c, MetaFile, o)
     ELSE /\ call' = [c EXCEPT !.stage = "lists",
                               !.slots = @ \o [i \in 1..Len(CoreFiles) |->
                                                 Request(CoreFiles[i])]]
          /\ ret' = NoRet
          /\ UNCHANGED storeCore
  /\ UNCHANGED <<remote, impl, env, page, newsArticlesCache, storeMeta, seen, tasks, caches>>

\* The batches of the prefetch: the one of latest_id and the one before it.
PrefetchStarts(latestId) ==
  IF latestId = 0 THEN << >>
  ELSE LET latestBatchStart == (latestId \div BatchSize) * BatchSize IN
       <<latestBatchStart>> \o (IF latestBatchStart - BatchSize >= 0
                                 THEN <<latestBatchStart - BatchSize>> ELSE << >>)

\* One of the core lists is answered.  With the last one the lists and meta
\* are set, isLoaded becomes true, and the prefetch is requested.
FetchCoreDataListResponse(i, o) ==
  /\ call.op = "fetchCoreData" /\ call.stage = "lists" /\ call.pc = "wait"
  /\ i \in 2..Len(call.slots)
  /\ call.slots[i].st = "inflight"
  /\ o \in OutcomesOf(call.slots[i].file, FALSE)
  /\ LET c == [call EXCEPT !.slots = Answer(@, i, o)]
         meta == RemoteBody(remote, MetaFile)
         starts == PrefetchStarts(meta.tables.news_raw.latest_id)
     IN IF o # "ok"
        THEN CoreFailed(c, call.slots[i].file, o) /\ UNCHANGED storeMeta
        ELSE IF \E j \in 2..Len(c.slots) : c.slots[j].st = "inflight"
        THEN call' = c /\ ret' = NoRet /\ UNCHANGED <<storeCore, storeMeta>>
        ELSE /\ storeCore' = [storeCore EXCEPT
                                !.sources = RemoteBody(remote, CoreFiles[1]),
                                !.tags = RemoteBody(remote, CoreFiles[2]),
                                !.tag_articles = RemoteBody(remote, CoreFiles[3]),
                                !.isLoaded = TRUE,
                                !.isLoading = FALSE]
             /\ storeMeta' = meta
             /\ IF starts = << >>
                THEN call' = Done(c) /\ ret' = Value([js |-> "undefined"])
                ELSE /\ call' = [c EXCEPT !.stage = "prefetch",
                                          !.todo = starts,
                                          !.slots = @ \o [k \in 1..Len(starts) |->
                                             Request(BatchFile("news_raw", starts[k]))]]
                     /\ ret' = NoRet
  /\ UNCHANGED <<remote, impl, env, page, newsArticlesCache, seen, tasks, caches>>

\* One of the prefetch requests is answered.  With the last one the items go
\* into a copy of the newsRawCache of `state`, the state read when the call
\* started, and the copy replaces state.newsRawCache.
FetchCoreDataPrefetchResponse(i, o) ==
  /\ call.op = "fetchCoreData" /\ call.stage = "prefetch" /\ call.pc = "wait"
  /\ i \in (Len(call.slots) - Len(call.todo) + 1)..Len(call.slots)
  /\ call.slots[i].st = "inflight"
  /\ o \in OutcomesOf(call.slots[i].file, FALSE)
  /\ LET c == [call EXCEPT !.slots = Answer(@, i, o)]
         first == Len(c.slots) - Len(c.todo)
         batches == [k \in 1..Len(c.todo) |-> RemoteBody(remote, c.slots[first + k].file)]
     IN IF o # "ok"
        THEN CoreFailed(c, call.slots[i].file, o) /\ UNCHANGED storeRawCache
        ELSE IF \E j \in (first + 1)..Len(c.slots) : c.slots[j].st = "inflight"
        THEN call' = c /\ ret' = NoRet /\ UNCHANGED <<storeCore, storeRawCache>>
        ELSE /\ call' = Done(c)
             /\ ret' = Value([js |-> "undefined"])
             /\ storeRawCache' = SetAll(c.snapshot, Flat(batches))
             /\ UNCHANGED storeCore
  /\ UNCHANGED <<remote, impl, env, page, newsArticlesCache, storeMeta, seen, tasks,
                 fileCache, newsRawBatchCache, newsArticleCache>>

\* ------------------------------------------------- store: calls in flight

\* -------------------------------------------------------- fetchNewsArticles

\* latestId is optional: 0 stands for a call without it (`!latestId` holds
\* for both).  utils.ts takes no limit.
LatestArgs == {0, 5, 100, 150, 250, 350}
ArticleLimitArgs == {0, 1, 3}

ArticlesFile == BaseFile("news_articles")
ClusterFile(batchStart) == BatchFile("news_articles", batchStart)

\* utils.ts: batchStart = getBatchId(latestId || 100)
ArticlesBatch(latestId) == getBatchId(IF latestId = 0 THEN 100 ELSE latestId)

\* utils.ts: cacheKey = `${batchStart || 'base'}`
ArticlesKey(latestId) ==
  IF ArticlesBatch(latestId) = 0 THEN "base" ELSE ToString(ArticlesBatch(latestId))

\* api.ts: batchesToFetch is bounded by the static limit, reference/api.ts:
\* by the limit when it is positive.
BatchesToFetch(latestId, limit) ==
  LET batches == NumBatches(latestId)
      bound   == IF impl = "store" THEN NumBatches(limit) ELSE NumBatches(StaticLimit)
  IN  IF impl = "store" /\ limit <= 0 THEN batches
      ELSE IF batches < bound THEN batches ELSE bound

\* api.ts, reference/api.ts: batchStart = (batches - 1 - i) * batchSize for
\* i < batchesToFetch.
ArticleStarts(latestId, limit) ==
  [i \in 1..BatchesToFetch(latestId, limit) |->
     (NumBatches(latestId) - 1 - (i - 1)) * BatchSize]

\* fetchNewsArticles up to its first await: utils.ts answers from
\* newsArticlesCache, and the base file from fileCache through fetchFile;
\* api.ts and reference/api.ts start all their batch requests at once.
FetchNewsArticles(latestId, limit) ==
  /\ Ready
  /\ impl \in {"cached", "uncached", "store"}
  /\ impl = "cached" => limit = 0
  /\ LET c   == NewCall("fetchNewsArticles", [latestId |-> latestId, limit |-> limit])
         key == ArticlesKey(latestId)
     IN
     IF impl = "cached" /\ key \in DOMAIN newsArticlesCache
     THEN /\ call' = Done([c EXCEPT !.stage = "hit"])
          /\ ret' = Value(newsArticlesCache[key])
          /\ UNCHANGED newsArticlesCache
     ELSE IF impl = "cached" /\ latestId = 0 /\ ArticlesFile \in DOMAIN fileCache
     THEN /\ call' = Done([c EXCEPT !.hits = {ArticlesFile}])
          /\ ret' = Value(fileCache[ArticlesFile])
          /\ newsArticlesCache' = (key :> fileCache[ArticlesFile]) @@ newsArticlesCache
     ELSE /\ call' = [c EXCEPT !.slots =
                        IF latestId = 0 THEN <<Request(ArticlesFile)>>
                        ELSE IF impl = "cached"
                        THEN <<Request(ClusterFile(ArticlesBatch(latestId)))>>
                        ELSE [i \in 1..Len(ArticleStarts(latestId, limit)) |->
                                Request(ClusterFile(ArticleStarts(latestId, limit)[i]))]]
          /\ ret' = NoRet
          /\ UNCHANGED newsArticlesCache
  /\ UNCHANGED <<remote, impl, env, page, storeMeta, seen, storeCore, tasks, caches>>

\* results.flat(), a failed batch counting as [], cut to the limit.
ArticlesResult(slots, limit) ==
  LET flatResults ==
        Flat([i \in 1..Len(slots) |->
                IF slots[i].st = "ok" THEN RemoteBody(remote, slots[i].file) ELSE << >>])
  IN  IF limit > 0 THEN Slice(flatResults, limit) ELSE flatResults

\* fetchNewsArticles from a response on.  The base file: a failure raises,
\* utils.ts stores the body in fileCache and newsArticlesCache.  A batch of
\* utils.ts: a failure counts as [], the `id` of the first element of the
\* list is read, which raises a TypeError on an empty list, then the list is
\* stored.  The batches of api.ts and reference/api.ts:
\* once all have answered, the lists are joined and cut.
FetchNewsArticlesResponse(i, o) ==
  /\ call.op = "fetchNewsArticles" /\ call.pc = "wait"
  /\ i \in 1..Len(call.slots)
  /\ call.slots[i].st = "inflight"
  /\ o \in OutcomesOf(call.slots[i].file,
                      impl = "cached" \/ (impl = "uncached" /\ call.args.latestId = 0))
  /\ LET f     == call.slots[i].file
         slots == Answer(call.slots, i, o)
         c     == [call EXCEPT !.slots = slots]
         key   == ArticlesKey(call.args.latestId)
         body  == IF o = "ok" THEN RemoteBody(remote, f) ELSE << >>
     IN
     IF call.args.latestId = 0 THEN
       /\ call' = Done(c)
       /\ ret' = IF o = "ok" THEN Value(body) ELSE Raised(f, o)
       /\ IF impl = "cached" /\ o = "ok"
          THEN /\ fileCache' = (f :> body) @@ fileCache
               /\ newsArticlesCache' = (key :> body) @@ newsArticlesCache
          ELSE UNCHANGED <<fileCache, newsArticlesCache>>
     ELSE IF impl = "cached" THEN
       /\ call' = Done(c)
       /\ ret' = IF body = << >> THEN [kind |-> "raised", err |-> [type |-> "TypeError"]]
                 ELSE Value(body)
       /\ newsArticlesCache' = IF body = << >> THEN newsArticlesCache
                               ELSE (key :> body) @@ newsArticlesCache
       /\ UNCHANGED fileCache
     ELSE
       /\ IF \E j \in 1..Len(slots) : slots[j].st = "inflight"
          THEN call' = c /\ ret' = NoRet
          ELSE /\ call' = Done(c)
               /\ ret' = Value(ArticlesResult(slots, call.args.limit))
       /\ UNCHANGED <<fileCache, newsArticlesCache>>
  /\ UNCHANGED <<remote, impl, env, page, storeMeta, seen, storeCore, tasks,
                 newsRawBatchCache, newsArticleCache, storeRawCache>>

\* ------------------------------------------------------------------ fetchMeta

\* fetchMeta up to the `await fetch(...)` of fetchFile('meta'): utils.ts
\* answers from fileCache.
FetchMeta ==
  /\ Ready
  /\ impl \in {"cached", "uncached"}
  /\ IF Memoized /\ MetaFile \in DOMAIN fileCache
     THEN /\ call' = [Done(NewCall("fetchMeta", << >>)) EXCEPT !.hits = {MetaFile}]
          /\ ret' = Value(fileCache[MetaFile])
     ELSE /\ call' = [NewCall("fetchMeta", << >>)
                        EXCEPT !.slots = <<Request(MetaFile)>>]
          /\ ret' = NoRet
  /\ UNCHANGED <<remote, impl, others, caches>>

\* The remote API reads its data for the request; the response travels for
\* a time of its own, so that responses can arrive in another order than
\* the requests were sent.
MetaServed ==
  /\ call.op = "fetchMeta" /\ call.pc = "wait"
  /\ call.stage = ""
  /\ call' = [call EXCEPT !.stage = "served",
                          !.snapshot = (MetaFile :> RemoteBody(remote, MetaFile))]
  /\ UNCHANGED <<remote, impl, ret, others, caches>>

\* fetchFile('meta') from the response on: the body that was served is
\* returned and, in utils.ts, stored in fileCache; a failure is raised.
FetchMetaResponse(o) ==
  /\ call.op = "fetchMeta" /\ call.pc = "wait"
  /\ o \in OutcomesOf(MetaFile, TRUE)
  /\ o = "ok" => call.stage = "served"
  /\ call' = Done([call EXCEPT !.slots = Answer(@, 1, o)])
  /\ IF o = "ok"
     THEN /\ ret' = Value(call.snapshot[MetaFile])
          /\ fileCache' = IF Memoized
                          THEN (MetaFile :> call.snapshot[MetaFile]) @@ fileCache
                          ELSE fileCache
     ELSE /\ ret' = Raised(MetaFile, o)
          /\ UNCHANGED fileCache
  /\ UNCHANGED <<remote, impl, others, newsRawBatchCache, newsArticleCache, storeRawCache>>

\* ------------------------------------------------ the router, the renderer

\* How many renders are in flight at once and how long the history gets.
MaxRenders == 2
MaxEntries == 3

\* What the data layer holds; the browser scripts never touch it.
dataLayer ==
  <<remote, impl, call, ret, env, storeMeta, seen, storeCore, tasks,
    newsArticlesCache, caches>>

\* The links of the pages.
PageLinks == {Url("article", 10), Url("article", 75), Url("cluster", 100)}

\* How a fetch of the browser can end: fetch has no timer there.  The body
\* of an error response is JSON or it is not; the body of an ok response can
\* fail to parse.
PageOutcomes == {"ok", "http_error", "http_error_json", "network_error", "malformed"}

PageOutcomesOf(f) ==
  IF RemoteHas(remote, f) THEN PageOutcomes ELSE PageOutcomes \ {"ok", "malformed"}

\* A user event is taken while the bounds leave room for what it starts.
CanStart ==
  /\ Len(page.renders) < MaxRenders
  /\ Len(page.entries) + Len(page.renders) < MaxEntries

Handled(p, event) == [p EXCEPT !.event = event]

Remove(s, i) == SubSeq(s, 1, i - 1) \o SubSeq(s, i + 1, Len(s))

\* history.pushState(state, '', url): the entries after the current one are
\* dropped and the new entry becomes the current one.
PushState(p, state, url) ==
  [p EXCEPT !.entries = Append(SubSeq(@, 1, p.at), [state |-> state, url |-> url]),
            !.at = p.at + 1]

\* main.innerHTML = the loading indicator
ShowLoading(main) == Content("loading", 0, "")

\* document.querySelector('.loading')?.remove()
HideLoading(main) == IF main.kind = "loading" THEN Content("empty", 0, "") ELSE main

RenderError_none(main, message) == main

\* main.innerHTML = the error box
RenderError(main, message) == Content("error", 0, message)

NotFoundMessage(fn) == IF fn = "article" THEN "Article not found" ELSE "Cluster not found"
FailedMessage(fn) == IF fn = "article" THEN "Failed to load article" ELSE "Failed to load cluster"

\* The finally block of a render and, for a render navigateToArticle or
\* navigateToCluster awaited, the cache.set(id, true) that follows it.
RenderEnd(p, r) ==
  LET c == p.renders[r] IN
  [p EXCEPT !.main = HideLoading(@),
            !.renders = Remove(@, r),
            !.articleCache = IF c.nav /\ c.fn = "article" THEN @ \cup {c.id} ELSE @,
            !.clusterCache = IF c.nav /\ c.fn = "cluster" THEN @ \cup {c.id} ELSE @]

\* The try block after the Promise.all: allTags.filter and, where a source
\* name is looked up, sources.find throw a TypeError on a value that is no
\* array; otherwise the content is written and the URL pushed.
RenderContent(p, r) ==
  LET c == p.renders[r]
      thrown == c.tags = "object" \/ (c.sources = "object" /\ c.raw # "empty")
  IN  IF thrown
      THEN RenderEnd([p EXCEPT !.main = RenderError(@, FailedMessage(c.fn))], r)
      ELSE RenderEnd(PushState([p EXCEPT !.main = Content(c.fn, c.id, "")],
                               HistoryState(c.id, IF c.fn = "cluster" THEN "cluster"
                                                  ELSE "undefined"),
                               Url(c.fn, c.id)), r)

\* The Promise.all resolves once each of its fetches has.
RenderResume(p, r) ==
  LET c == p.renders[r] IN
  IF "pending" \in {c.sources, c.tags, c.raw} THEN p ELSE RenderContent(p, r)

\* router.js handleLinkClick, for a link the two patterns match.
HandleLinkClick(url) ==
  /\ CanStart
  /\ IF url.id \in (IF url.kind = "article" THEN page.articleCache ELSE page.clusterCache)
     THEN page' = Handled(PushState(page, HistoryState(url.id, url.kind), url), "click")
     ELSE page' = Handled([page EXCEPT !.renders =
                             Append(@, NewRender(url.kind, url.id, TRUE, "head"))], "click")
  /\ UNCHANGED dataLayer

\* navigateToArticle, navigateToCluster: the HEAD request of the URL
\* answers.  An ok answer loads the static page, a new document; any other
\* enters the render, which shows the loading indicator and requests the
\* batch file.
NavigateResponse(r, o) ==
  /\ r \in 1..Len(page.renders)
  /\ page.renders[r].pc = "head"
  /\ o \in {"ok", "http_error", "network_error"}
  /\ LET c == page.renders[r] IN
     IF o = "ok"
     THEN page' = Document(c.fn, c.id)
     ELSE page' = Handled([page EXCEPT !.main = ShowLoading(@), !.renders[r].pc = "item"],
                          "response")
  /\ UNCHANGED dataLayer

\* handlePopState: the user moves to the entry j of the history.
HandlePopState(j) ==
  /\ j \in 1..Len(page.entries)
  /\ j # page.at
  /\ LET s == page.entries[j].state
         p == Handled([page EXCEPT !.at = j], "popstate")
     IN  IF s.id = 0 \/ s.type \in {"null", "undefined"} THEN page' = p
         ELSE IF s.type \in {"article", "cluster"}
         THEN /\ CanStart
              /\ page' = [p EXCEPT !.main = ShowLoading(@),
                                   !.renders = Append(@, NewRender(s.type, s.id, FALSE, "item"))]
         ELSE page' = p
  /\ UNCHANGED dataLayer

\* fetchNewsRawById, fetchClusterById of the browser resolve: null unless
\* the response is ok, parses and holds the id.  With the item the render
\* calls fetchSources, fetchTags and, for a cluster, fetchNewsRawByIds.
RenderItemResponse(r, o) ==
  /\ r \in 1..Len(page.renders)
  /\ page.renders[r].pc = "item"
  /\ LET c == page.renders[r]
         f == BatchFile(IF c.fn = "article" THEN "news_raw" ELSE "news_articles",
                        getBatchId(c.id))
         found == o = "ok" /\ c.id \in Range(Ids(RemoteBody(remote, f)))
         d == [c EXCEPT !.pc = "rest",
                        !.sources = IF page.sourcesCache # "null" THEN page.sourcesCache
                                    ELSE "pending",
                        !.tags = IF page.tagsCache # "null" THEN page.tagsCache
                                 ELSE "pending",
                        !.raw = IF c.fn = "cluster" THEN "pending" ELSE "none"]
     IN  /\ o \in PageOutcomesOf(f)
         /\ IF found
            THEN page' = Handled(RenderResume([page EXCEPT !.renders[r] = d], r), "response")
            ELSE page' = Handled(RenderEnd([page EXCEPT !.main =
                                   RenderError(@, NotFoundMessage(c.fn))], r), "response")
  /\ UNCHANGED dataLayer

\* What `await response.json()` of fetchSources and fetchTags gives, the
\* response not being checked: the array of an ok response, the object of
\* an error response whose body is JSON; otherwise it throws.
JsonOf(o) ==
  IF o = "ok" THEN "array" ELSE IF o = "http_error_json" THEN "object" ELSE "thrown"

\* fetchSources
FetchSourcesResponse(r, o) ==
  /\ r \in 1..Len(page.renders)
  /\ page.renders[r].pc = "rest"
  /\ page.renders[r].sources = "pending"
  /\ o \in PageOutcomes
  /\ page' = Handled(RenderResume(
       [page EXCEPT !.sourcesCache = IF JsonOf(o) = "thrown" THEN @ ELSE JsonOf(o),
                    !.renders[r].sources = IF JsonOf(o) = "thrown" THEN "array"
                                           ELSE JsonOf(o)], r), "response")
  /\ UNCHANGED dataLayer

\* fetchTags
FetchTagsResponse(r, o) ==
  /\ r \in 1..Len(page.renders)
  /\ page.renders[r].pc = "rest"
  /\ page.renders[r].tags = "pending"
  /\ o \in PageOutcomes
  /\ page' = Handled(RenderResume(
       [page EXCEPT !.tagsCache = IF JsonOf(o) = "thrown" THEN @ ELSE JsonOf(o),
                    !.renders[r].tags = IF JsonOf(o) = "thrown" THEN "array"
                                        ELSE JsonOf(o)], r), "response")
  /\ UNCHANGED dataLayer

\* fetchNewsRawByIds of the browser resolves, with the items it found or
\* with none: it skips the batches whose request failed.
RenderRawItemsResponse(r, items) ==
  /\ r \in 1..Len(page.renders)
  /\ page.renders[r].pc = "rest"
  /\ page.renders[r].raw = "pending"
  /\ items \in {"items", "empty"}
  /\ page' = Handled(RenderResume([page EXCEPT !.renders[r].raw = items], r), "response")
  /\ UNCHANGED dataLayer

\* The event loop turns to another call: the call looked at is put aside at
\* its await (or before its start, or after its end) and call t is taken up.
Switch(t) ==
  /\ t \in 1..Len(tasks)
  /\ call' = tasks[t].call
  /\ ret' = tasks[t].ret
  /\ tasks' = [tasks EXCEPT ![t] = [call |-> call, ret |-> ret]]
  /\ UNCHANGED <<remote, impl, env, page, newsArticlesCache, storeMeta, seen, storeCore, caches>>

\* ---------------------------------------------------------------- the system

IdLists == UNION {[1..n -> IdArgs] : n \in 0..MaxIds}

Next ==
  \/ Return
  \/ \E name \in BaseFiles : FetchFile(name)
  \/ \E o \in Outcomes : FetchFileResponse(o)
  \/ \E id \in IdArgs : FetchNewsRawBatch(id)
  \/ \E o \in Outcomes : FetchNewsRawBatchResponse(o)
  \/ \E ids \in IdLists : FetchNewsRawByIds(ids)
  \/ \E o \in Outcomes : FetchNewsRawByIdsResponse(o)
  \/ \E id \in IdArgs : FetchNewsRawById(id)
  \/ \E o \in Outcomes : FetchNewsRawByIdResponse(o)
  \/ \E id \in ArticleIdArgs : FetchNewsArticleById(id)
  \/ \E o \in Outcomes : FetchNewsArticleByIdResponse(o)
  \/ \E tagId \in TagArgs, limit \in LimitArgs : FetchNewsByTag(tagId, limit)
  \/ \E o \in Outcomes : FetchNewsByTagResponse(o)
  \/ \E i \in 1..Len(call.slots), o \in Outcomes : BrowserTagItemResponse(i, o)
  \/ \E limit \in LimitArgs : FetchRecentNews(limit)
  \/ \E o \in Outcomes : FetchRecentNewsMetaResponse(o)
  \/ \E o \in Outcomes : FetchRecentNewsBatchResponse(o)
  \/ \E ids \in IdLists : StoreFetchNewsRaw(ids)
  \/ \E i \in 1..Len(call.slots), o \in Outcomes : StoreFetchNewsRawResponse(i, o)

Spec == Init /\ [][Next]_vars

\* ------------------------------------------------------- the search system

QueryArgs == {<< >>, <<" ">>, <<"a", "b">>, <<"C", "A">>, <<"b">>, <<"z">>}
EnvArgs == {<< >>, <<"1", "5", "0">>, <<"2", "5", "0">>}

InitSearch ==
  /\ remote \in Worlds
  /\ impl \in {"cached", "uncached", "store"}
  /\ fileCache = Empty
  /\ newsRawBatchCache = Empty
  /\ newsArticleCache = Empty
  /\ storeRawCache = Empty
  /\ call = Idle
  /\ ret = NoRet
  /\ env \in EnvArgs
  /\ newsArticlesCache = Empty
  /\ storeMeta = Null
  /\ seen = Unseen
  /\ storeCore = NotLoaded
  /\ tasks = << >>
  /\ page = StaticPage

NextSearch ==
  \/ Return
  \/ \E query \in QueryArgs, limit \in LimitArgs : SearchNews(query, limit)
  \/ \E i \in 1..Len(call.slots), o \in Outcomes : SearchNewsResponse(i, o)
  \/ StoreFetchMeta
  \/ \E o \in Outcomes : StoreFetchMetaResponse(o)
  \/ \E query \in QueryArgs : StoreSearchNews(query)
  \/ \E o \in Outcomes : StoreSearchNewsResponse(o)
  \/ \E limit \in LimitArgs : FetchRecentNews(limit)
  \/ \E o \in Outcomes : FetchRecentNewsMetaResponse(o)
  \/ \E o \in Outcomes : FetchRecentNewsBatchResponse(o)

SpecSearch == InitSearch /\ [][NextSearch]_vars

\* ------------------------------------------------------- the fetcher system

\* Start ids over the batches 0, 100 and 200.
BatchArgs == {10, 100, 120, 200, 250}

\* The file fetchers and the batch accessor on their own.
InitFetch ==
  /\ remote \in Worlds
  /\ impl \in {"cached", "uncached"}
  /\ fileCache = Empty
  /\ newsRawBatchCache = Empty
  /\ newsArticleCache = Empty
  /\ storeRawCache = Empty
  /\ call = Idle
  /\ ret = NoRet
  /\ env = << >>
  /\ newsArticlesCache = Empty
  /\ storeMeta = Null
  /\ seen = Unseen
  /\ storeCore = NotLoaded
  /\ tasks = << >>
  /\ page = StaticPage

NextFetch ==
  \/ Return
  \/ \E name \in BaseFiles : FetchFile(name)
  \/ \E o \in Outcomes : FetchFileResponse(o)
  \/ \E name \in BaseFiles : FetchFileUncached(name)
  \/ \E o \in Outcomes : FetchFileUncachedResponse(o)
  \/ \E startId \in BatchArgs : FetchNewsRawBatch(startId)
  \/ \E o \in Outcomes : FetchNewsRawBatchResponse(o)

SpecFetch == InitFetch /\ [][NextFetch]_vars

\* ------------------------------------------------- the three implementations

\* Longest id list of a compared fetchNewsRawByIds call.
MaxEquivIds == 2

\* The calls that are compared.
Plans ==
  {[op |-> "fetchNewsRawByIds", ids |-> ids] :
      ids \in UNION {[1..n -> IdArgs] : n \in 0..MaxEquivIds}}
  \cup {[op |-> "fetchNewsByTag", tagId |-> tagId, limit |-> limit] :
          tagId \in TagArgs, limit \in 1..3}

\* The files the compared calls can ask for, and the ways the API can answer
\* every request for a file: the file as it is (200, or 404 when there is
\* none), a server error, or no connection.
Answered == {TagFile} \cup {BatchFile("news_raw", b) : b \in {0, 100, 200}}

AnswersOf(w) ==
  {[f \in Answered |-> IF a[f] = "ok" /\ ~RemoteHas(w, f) THEN "http_error" ELSE a[f]] :
      a \in [Answered -> {"ok", "http_error", "network_error"}]}

ImplOrder == <<"cached", "uncached", "browser">>

\* The same call is made of each implementation in turn, each in a process
\* of its own, against the same remote answers.
InitEquiv ==
  /\ remote \in UNION {{[w EXCEPT !.answers = a] : a \in AnswersOf(w)} : w \in Worlds}
  /\ impl = ImplOrder[1]
  /\ fileCache = Empty
  /\ newsRawBatchCache = Empty
  /\ newsArticleCache = Empty
  /\ storeRawCache = Empty
  /\ call = Idle
  /\ ret = NoRet
  /\ env = << >>
  /\ newsArticlesCache = Empty
  /\ storeMeta = Null
  /\ seen \in {[plan |-> p, results |-> Empty] : p \in Plans}
  /\ storeCore = NotLoaded
  /\ tasks = << >>
  /\ page = StaticPage

EquivFetchNewsRawByIds ==
  /\ impl \notin DOMAIN seen.results
  /\ seen.plan.op = "fetchNewsRawByIds"
  /\ FetchNewsRawByIds(seen.plan.ids)

EquivFetchNewsByTag ==
  /\ impl \notin DOMAIN seen.results
  /\ seen.plan.op = "fetchNewsByTag"
  /\ FetchNewsByTag(seen.plan.tagId, seen.plan.limit)

\* The result is noted, and the next implementation starts from scratch.
EquivReturn ==
  /\ call.pc = "done"
  /\ seen' = [seen EXCEPT !.results = (impl :> ret) @@ @]
  /\ impl' = IF \E i \in 1..(Len(ImplOrder) - 1) : ImplOrder[i] = impl
             THEN ImplOrder[(CHOOSE i \in 1..Len(ImplOrder) : ImplOrder[i] = impl) + 1]
             ELSE impl
  /\ call' = Idle
  /\ ret' = NoRet
  /\ fileCache' = Empty
  /\ newsRawBatchCache' = Empty
  /\ newsArticleCache' = Empty
  /\ UNCHANGED <<remote, env, page, newsArticlesCache, storeMeta, storeRawCache, storeCore, tasks>>

NextEquiv ==
  \/ EquivFetchNewsRawByIds
  \/ EquivFetchNewsByTag
  \/ EquivReturn
  \/ \E o \in Outcomes : FetchNewsRawByIdsResponse(o)
  \/ \E o \in Outcomes : FetchNewsByTagResponse(o)
  \/ \E i \in 1..Len(call.slots), o \in Outcomes : BrowserTagItemResponse(i, o)

SpecEquiv == InitEquiv /\ [][NextEquiv]_vars

\* ----------------------------------------------------------- the store system

\* The file fetchers and the batch accessor of every implementation, with
\* the timers of the AbortControllers running: the abort of a request that
\* installed one comes after API_TIMEOUT; whether and when the remote API
\* answers is up to it.
InitLive ==
  /\ remote \in Worlds
  /\ impl \in Impls
  /\ fileCache = Empty
  /\ newsRawBatchCache = Empty
  /\ newsArticleCache = Empty
  /\ storeRawCache = Empty
  /\ call = Idle
  /\ ret = NoRet
  /\ env = << >>
  /\ newsArticlesCache = Empty
  /\ storeMeta = Null
  /\ seen = Unseen
  /\ storeCore = NotLoaded
  /\ tasks = << >>
  /\ page = StaticPage

\* The body of a file plays no part in whether its fetch ends: tag_articles
\* stands for the resource files.
NextLive ==
  \/ Return
  \/ FetchFile("tag_articles")
  \/ \E o \in Outcomes : FetchFileResponse(o)
  \/ FetchFileUncached("tag_articles")
  \/ \E o \in Outcomes : FetchFileUncachedResponse(o)
  \/ \E startId \in BatchArgs : FetchNewsRawBatch(startId)
  \/ \E o \in Outcomes : FetchNewsRawBatchResponse(o)

SpecLive ==
  /\ InitLive
  /\ [][NextLive]_vars
  /\ WF_vars(FetchFileResponse("timeout"))
  /\ WF_vars(FetchFileUncachedResponse("timeout"))
  /\ WF_vars(FetchNewsRawBatchResponse("timeout"))

\* The id lists the pages ask the store for.
\* The cluster accessors on their own, against data sets whose clusters lie
\* in several batches.
InitClusters ==
  /\ remote \in {World2, World3}
  /\ impl \in {"cached", "uncached", "store"}
  /\ fileCache = Empty
  /\ newsRawBatchCache = Empty
  /\ newsArticleCache = Empty
  /\ storeRawCache = Empty
  /\ call = Idle
  /\ ret = NoRet
  /\ env \in EnvArgs
  /\ newsArticlesCache = Empty
  /\ storeMeta = Null
  /\ seen = Unseen
  /\ storeCore = NotLoaded
  /\ tasks = << >>
  /\ page = StaticPage

NextClusters ==
  \/ Return
  \/ \E latestId \in LatestArgs, limit \in ArticleLimitArgs :
       FetchNewsArticles(latestId, limit)
  \/ \E i \in 1..Len(call.slots), o \in Outcomes : FetchNewsArticlesResponse(i, o)
  \/ \E id \in ArticleIdArgs : FetchNewsArticleById(id)
  \/ \E o \in Outcomes : FetchNewsArticleByIdResponse(o)

SpecClusters == InitClusters /\ [][NextClusters]_vars

\* The remote API publishes a new raw item: the data is append-only, the
\* latest batch and meta change, batches below the latest one do not.
Publish ==
  /\ Cardinality(remote.raw) < MaxRaw
  /\ remote' = [remote EXCEPT !.raw = @ \cup {Max(@) + 1}]
  /\ UNCHANGED <<impl, call, ret, others, caches>>

\* The caches of utils.ts with two calls in flight at a time.
InitCache ==
  /\ remote = World1
  /\ impl = "cached"
  /\ fileCache = Empty
  /\ newsRawBatchCache = Empty
  /\ newsArticleCache = Empty
  /\ storeRawCache = Empty
  /\ call = Idle
  /\ ret = NoRet
  /\ env = << >>
  /\ newsArticlesCache = Empty
  /\ storeMeta = Null
  /\ seen = Unseen
  /\ storeCore = NotLoaded
  /\ tasks = <<[call |-> Idle, ret |-> NoRet]>>
  /\ page = StaticPage

NextCache ==
  \/ \E t \in 1..Len(tasks) : Switch(t)
  \/ Return
  \/ Publish
  \/ \E name \in BaseFiles : FetchFile(name)
  \/ \E o \in Outcomes : FetchFileResponse(o)
  \/ \E startId \in BatchArgs : FetchNewsRawBatch(startId)
  \/ \E o \in Outcomes : FetchNewsRawBatchResponse(o)

SpecCache == InitCache /\ [][NextCache]_vars

\* fetchMeta of utils.ts and api.ts with two calls in flight at a time,
\* against a remote API that publishes new items.
InitMeta ==
  /\ remote \in Worlds
  /\ impl \in {"cached", "uncached"}
  /\ fileCache = Empty
  /\ newsRawBatchCache = Empty
  /\ newsArticleCache = Empty
  /\ storeRawCache = Empty
  /\ call = Idle
  /\ ret = NoRet
  /\ env = << >>
  /\ newsArticlesCache = Empty
  /\ storeMeta = Null
  /\ seen = Unseen
  /\ storeCore = NotLoaded
  /\ tasks = <<[call |-> Idle, ret |-> NoRet]>>
  /\ page = StaticPage

NextMeta ==
  \/ \E t \in 1..Len(tasks) : Switch(t)
  \/ Return
  \/ Publish
  \/ FetchMeta
  \/ MetaServed
  \/ \E o \in Outcomes : FetchMetaResponse(o)

SpecMeta == InitMeta /\ [][NextMeta]_vars

\* ------------------------------------------------------- the browser system

InitPage ==
  /\ remote = World1
  /\ impl = "browser"
  /\ fileCache = Empty
  /\ newsRawBatchCache = Empty
  /\ newsArticleCache = Empty
  /\ storeRawCache = Empty
  /\ call = Idle
  /\ ret = NoRet
  /\ env = << >>
  /\ newsArticlesCache = Empty
  /\ storeMeta = Null
  /\ seen = Unseen
  /\ storeCore = NotLoaded
  /\ tasks = << >>
  /\ page = StaticPage

NextPage ==
  \/ \E url \in PageLinks : HandleLinkClick(url)
  \/ \E r \in 1..MaxRenders, o \in PageOutcomes : NavigateResponse(r, o)
  \/ \E j \in 1..MaxEntries : HandlePopState(j)
  \/ \E r \in 1..MaxRenders, o \in PageOutcomes : RenderItemResponse(r, o)
  \/ \E r \in 1..MaxRenders, o \in PageOutcomes : FetchSourcesResponse(r, o)
  \/ \E r \in 1..MaxRenders, o \in PageOutcomes : FetchTagsResponse(r, o)
  \/ \E r \in 1..MaxRenders, items \in {"items", "empty"} : RenderRawItemsResponse(r, items)

SpecPage == InitPage /\ [][NextPage]_vars

RawCalls == {<<10>>, <<120>>}

\* Three calls of the store can be in flight at a time.
InitStore ==
  /\ remote \in Worlds
  /\ impl = "store"
  /\ fileCache = Empty
  /\ newsRawBatchCache = Empty
  /\ newsArticleCache = Empty
  /\ storeRawCache = Empty
  /\ call = Idle
  /\ ret = NoRet
  /\ env = << >>
  /\ newsArticlesCache = Empty
  /\ storeMeta = Null
  /\ seen = Unseen
  /\ storeCore = NotLoaded
  /\ tasks = <<[call |-> Idle, ret |-> NoRet], [call |-> Idle, ret |-> NoRet]>>
  /\ page = StaticPage

NextStore ==
  \/ \E t \in 1..Len(tasks) : Switch(t)
  \/ FetchCoreData
  \/ \E o \in Outcomes : FetchCoreDataMetaResponse(o)
  \/ \E i \in 1..Len(call.slots), o \in Outcomes : FetchCoreDataListResponse(i, o)
  \/ \E i \in 1..Len(call.slots), o \in Outcomes : FetchCoreDataPrefetchResponse(i, o)
  \/ \E ids \in RawCalls : StoreFetchNewsRaw(ids)
  \/ \E i \in 1..Len(call.slots), o \in Outcomes : StoreFetchNewsRawResponse(i, o)

SpecStore == InitStore /\ [][NextStore]_vars

\* ------------------------------------------------------------------ claims

Finished(op) == call.pc = "done" /\ call.op = op

\* The files the call requested, in the order of the requests.
Requested == [i \in 1..Len(call.slots) |-> call.slots[i].file]

Count(s, x) == Cardinality({i \in 1..Len(s) : s[i] = x})

\* The files the call obtained a list for: from a cache or from a response.
Obtained ==
  call.hits \cup {call.slots[i].file : i \in {j \in 1..Len(call.slots) :
                                                call.slots[j].st = "ok"}}

AllAnswersOk == \A i \in 1..Len(call.slots) : call.slots[i].st = "ok"

\* The batch file that holds raw item id, by the definition of the format.
RawFileOf(id) == BatchFile("news_raw", 100 * (id \div 100))

\* a is b with some elements left out.
RECURSIVE IsSubseq(_, _)
IsSubseq(a, b) ==
  IF a = << >> THEN TRUE
  ELSE IF b = << >> THEN FALSE
  ELSE IF Head(a) = Head(b) THEN IsSubseq(Tail(a), Tail(b))
  ELSE IsSubseq(a, Tail(b))

\* C1: fetchNewsRawByIds (utils.ts, api.ts, main.js) and the store's
\* fetchNewsRaw return the items they found in the order of their ids in the
\* input list: the ids of the result are the input list with ids left out,
\* and for ids [30, 10, 120] that are all found the result is item 30, item
\* 10, item 120.
C1_InputOrder ==
  (call.pc = "done" /\ call.op \in {"fetchNewsRawByIds", "fetchNewsRaw"}) =>
    /\ ret.kind = "value"
    /\ IsSubseq(Ids(ret.val), call.args.ids)
    /\ (/\ call.args.ids = <<30, 10, 120>>
        /\ {30, 10, 120} \subseteq remote.raw
        /\ {RawFileOf(30), RawFileOf(120)} \subseteq Obtained)
         => Ids(ret.val) = <<30, 10, 120>>

C1_Witness ==
  /\ Finished("fetchNewsRawByIds")
  /\ impl = "cached"
  /\ call.args.ids = <<30, 10, 120>>
  /\ Len(call.slots) = 2
  /\ ret = Value(<<Item(30), Item(10), Item(120)>>)

\* C2: a fetchNewsRawByIds call entered with an empty batch cache requests
\* the batch file of every distinct batch of its ids exactly once, and
\* nothing else.
C2_OneRequestPerBatch ==
  (/\ Finished("fetchNewsRawByIds")
   /\ \A f \in call.had : f.name # "news_raw") =>
    /\ \A i \in 1..Len(call.args.ids) :
         Count(Requested, RawFileOf(call.args.ids[i])) = 1
    /\ \A i \in 1..Len(Requested) :
         \E j \in 1..Len(call.args.ids) : Requested[i] = RawFileOf(call.args.ids[j])

C2_Witness ==
  /\ Finished("fetchNewsRawByIds")
  /\ impl = "browser"
  /\ call.args.ids = <<30, 10, 120>>
  /\ Requested = <<RawFileOf(30), RawFileOf(120)>>

\* C3: in utils.ts, api.ts and the browser, a batch request that fails (a
\* status that is not a success, a network error, a timeout) makes the batch
\* fetch return the empty list and fetchNewsRawById, fetchNewsArticleById
\* and fetchClusterById return the not-found value; none of them raises.
C3_FailedBatchIsEmpty ==
  (/\ call.pc = "done"
   /\ impl # "store"
   /\ call.op \in {"fetchNewsRawBatch", "fetchNewsRawById", "fetchNewsArticleById"}
   /\ Len(call.slots) = 1
   /\ call.slots[1].st # "ok") =>
    /\ ret.kind = "value"
    /\ call.op = "fetchNewsRawBatch" => ret.val = << >>
    /\ call.op # "fetchNewsRawBatch" =>
         ret.val = [js |-> IF impl = "browser" THEN "null" ELSE "undefined"]

C3_Witness ==
  /\ Finished("fetchNewsRawBatch")
  /\ impl = "cached"
  /\ call.slots[1].st = "timeout"
  /\ ret = Value(<< >>)

\* The n highest ids of S, highest first.
RECURSIVE Highest(_, _)
Highest(S, n) ==
  IF n = 0 \/ S = {} THEN << >>
  ELSE <<Max(S)>> \o Highest(S \ {Max(S)}, n - 1)

\* C4: fetchRecentNews(limit) returns the min(limit, number available)
\* raw items of highest id, in descending order of id, when no request
\* fails.
C4_RecentIsHighest ==
  (Finished("fetchRecentNews") /\ AllAnswersOk) =>
    /\ ret.kind = "value"
    /\ Ids(ret.val) = Highest(remote.raw, call.args.limit)

\* C5: when one of the batch requests of fetchNewsRawByIds or of the store's
\* fetchNewsRaw fails, the call raises nothing and returns the matching
\* items of every batch it fetched successfully.
C5_PartialFailure ==
  (call.pc = "done" /\ call.op \in {"fetchNewsRawByIds", "fetchNewsRaw"}) =>
    /\ ret.kind = "value"
    /\ \A i \in 1..Len(call.args.ids) :
         LET id == call.args.ids[i] IN
         (id \in remote.raw /\ RawFileOf(id) \in Obtained)
           => id \in Range(Ids(ret.val))

\* C6: a memoized fetchFile(name) entered after an earlier one succeeded
\* issues no request and returns the value fetched then; one entered before
\* issues exactly one request.
C6_MemoizedOnce ==
  (Finished("fetchFile") /\ impl = "cached") =>
    IF BaseFile(call.args.file) \in call.had
    THEN /\ Requested = << >>
         /\ ret = Value(RemoteBody(remote, BaseFile(call.args.file)))
    ELSE Requested = <<BaseFile(call.args.file)>>

C6_Witness ==
  /\ Finished("fetchFile")
  /\ impl = "cached"
  /\ call.args.file = "meta"
  /\ BaseFile("meta") \in call.had
  /\ ret.kind = "value"

\* C7: for every id n >= 0, getBatchId(n) is the multiple of 100 with
\* getBatchId(n) <= n < getBatchId(n) + 100, and n lies in the range of no
\* other batch.
C7_BatchOfId ==
  Finished("getBatchId") =>
    LET n == call.args.n
        b == ret.val
    IN /\ b % 100 = 0
       /\ b <= n /\ n < b + 100
       /\ \A k \in 0..(n \div 100 + 1) :
            (100 * k <= n /\ n < 100 * k + 100) => b = 100 * k

C7_Witness ==
  /\ Finished("getBatchId")
  /\ call.args.n = 207
  /\ ret = Value(200)

\* C8: fetchNewsRawById(id) requests no file but the batch file of id, never
\* raises, returns the item with that id when the batch it obtained holds
\* one and the not-found value otherwise.
C8_ById ==
  (Finished("fetchNewsRawById")) =>
    LET id == call.args.id
        none == [js |-> IF impl = "browser" THEN "null" ELSE "undefined"]
    IN /\ \A i \in 1..Len(Requested) : Requested[i] = RawFileOf(id)
       /\ Len(Requested) <= 1
       /\ ret.kind = "value"
       /\ ret.val \in {Item(id), none}
       /\ ret.val = Item(id) <=> (id \in remote.raw /\ RawFileOf(id) \in Obtained)

C8_Witness ==
  /\ Finished("fetchNewsRawById")
  /\ call.args.id = 120
  /\ ret = Value(Item(120))
  /\ Requested = <<BatchFile("news_raw", 100)>>

\* C9: the ids of the items fetchNewsRawByIds returns are the requested ids
\* that have an item in the batch obtained for them; the result is never
\* longer than the id list.
C9_ExactlyFound ==
  Finished("fetchNewsRawByIds") =>
    /\ ret.kind = "value"
    /\ Range(Ids(ret.val)) =
         {id \in Range(call.args.ids) :
            id \in remote.raw /\ RawFileOf(id) \in Obtained}
    /\ Len(ret.val) <= Len(call.args.ids)

C9_Witness ==
  /\ Finished("fetchNewsRawByIds")
  /\ impl = "uncached"
  /\ call.args.ids = <<120, 75, 10>>
  /\ AllAnswersOk
  /\ ret = Value(<<Item(120), Item(10)>>)

\* The article list of the tag in the remote data.
TagList(tagId) ==
  IF HasRow(remote.tags, tagId) THEN RowOf(remote.tags, tagId).articles ELSE << >>

\* C10: fetchNewsByTag(tagId, limit) requests only batches of the first
\* `limit` ids of the tag's article list and returns items of those ids
\* only, in the order of the list.
C10_TagOrder ==
  (Finished("fetchNewsByTag") /\ ret.kind = "value") =>
    LET first == SubSeq(TagList(call.args.tagId), 1,
                        IF call.args.limit < Len(TagList(call.args.tagId))
                        THEN call.args.limit
                        ELSE Len(TagList(call.args.tagId)))
    IN /\ IsSubseq(Ids(ret.val), first)
       /\ \A i \in 1..Len(Requested) :
            Requested[i].name = "news_raw" =>
              \E j \in 1..Len(first) : Requested[i] = RawFileOf(first[j])

C10_Witness ==
  /\ Finished("fetchNewsByTag")
  /\ call.args.tagId = 5
  /\ call.args.limit = 2
  /\ ret = Value(<<Item(200), Item(50)>>)

\* Math.ceil(n / 100), by its definition: the least k with n <= 100 * k.
Ceil100(n) == CHOOSE k \in 0..n : n <= 100 * k /\ (k = 0 \/ n > 100 * (k - 1))

EqualIgnoringCase(a, b) ==
  \/ a = b
  \/ {a, b} \in {{"a", "A"}, {"b", "B"}, {"c", "C"}}

\* q occurs in s when the case of the letters is ignored.
ContainsIgnoringCase(s, q) ==
  \E off \in 0..(Len(s) - Len(q)) :
    \A k \in 1..Len(q) : EqualIgnoringCase(s[off + k], q[k])

\* Raw item n has the query in its title or in its body.
IsMatch(n, query) ==
  \/ ContainsIgnoringCase(Item(n).title, query)
  \/ ContainsIgnoringCase(Item(n).article, query)

\* C11: one searchNews call requests at most ceil(staticRetentionLimit / 100)
\* batch files, whatever latest_id is; when no item matches the query it
\* returns the empty list within that bound.
C11_BoundedScan ==
  call.op = "searchNews" =>
    /\ Len(call.slots) <= Ceil100(StaticLimit)
    /\ (call.pc = "done" /\ \A n \in remote.raw : ~IsMatch(n, call.args.query))
         => ret = Value(<< >>)

\* The batch files a build-time searchNews call scanned: those it obtained a
\* list for.  The files hold their items by ascending id, so the scan order
\* is the order of the ids.
Scanned == {n \in remote.raw : RawFileOf(n) \in Obtained}

\* C12: searchNews(query, limit) of utils.ts and api.ts returns exactly the
\* first `limit` items in scan order that have the query, case-insensitively,
\* in their title or body.
C12_FirstMatches ==
  (Finished("searchNews") /\ impl \in {"cached", "uncached"}) =>
    LET hits == Ascending({n \in Scanned : IsMatch(n, call.args.query)})
        k    == IF call.args.limit < Len(hits) THEN call.args.limit ELSE Len(hits)
    IN  /\ ret.kind = "value"
        /\ Ids(ret.val) = SubSeq(hits, 1, k)
        /\ \A i \in 1..Len(ret.val) : ret.val[i] = Item(ret.val[i].id)

\* A search for "CA" with limit 2 over the three items of batch 0, which all
\* carry the title "ca": the first two are returned.
C12_Witness ==
  /\ Finished("searchNews")
  /\ impl \in {"cached", "uncached"}
  /\ remote = World1
  /\ call.args.query = <<"C", "A">>
  /\ call.args.limit = 2
  /\ ret = Value(<<Item(10), Item(30)>>)

MetaFailed ==
  /\ Len(call.slots) >= 1
  /\ call.slots[1].file = MetaFile
  /\ call.slots[1].st \notin {"ok", "inflight"}

\* C13: when the meta request fails, fetchMeta and the operations built on it
\* (fetchRecentNews, the store's fetchMeta) raise to their caller and request
\* no batch.
C13_MetaFailureSurfaces ==
  (call.pc = "done" /\ call.op \in {"fetchRecentNews", "fetchMeta"} /\ MetaFailed)
    => (ret.kind = "raised" /\ Len(call.slots) = 1)

FileCall == call.op \in {"fetchFile", "fetchFileUncached"}

\* C15: fetchFile and fetchFileUncached fail with an error that carries the
\* resource name and the status when the status is not a success, and with
\* an error that carries the resource name and a timeout indication when the
\* timeout elapses.
C15_ErrorCarriesResource ==
  (FileCall /\ call.pc = "done" /\ Len(call.slots) = 1) =>
    LET f == call.slots[1].file
        o == call.slots[1].st
    IN  /\ o = "http_error" =>
             /\ ret.kind = "raised"
             /\ DOMAIN ret.err = {"type", "file", "status"}
             /\ ret.err.file = f
        /\ o = "timeout" =>
             /\ ret.kind = "raised"
             /\ "file" \in DOMAIN ret.err
             /\ ret.err.file = f

\* C19: one call of fetchFile or fetchFileUncached issues at most one
\* request; after a failure of that request it fails, with no second one.
C19_NoRetry ==
  FileCall =>
    /\ Len(call.slots) <= 1
    /\ (call.pc = "done" /\ call.slots # << >> /\ call.slots[1].st # "ok")
         => ret.kind = "raised"

\* fetchFileUncached has failed by timeout after its one request.
C19_Witness ==
  /\ Finished("fetchFileUncached")
  /\ Len(call.slots) = 1
  /\ call.slots[1].st = "timeout"
  /\ ret.kind = "raised"

\* C17: fetchNewsByTag(tagId, limit) for a tagId without a row in the
\* tag_articles mapping returns the empty list, raises nothing and requests
\* no batch.
C17_NoRowIsEmpty ==
  (/\ Finished("fetchNewsByTag")
   /\ TagFile \in Obtained
   /\ \A i \in 1..Len(remote.tags) : remote.tags[i].tag_id # call.args.tagId)
    => /\ ret = Value(<< >>)
       /\ \A i \in 1..Len(call.slots) : call.slots[i].file = TagFile
       /\ call.hits \subseteq {TagFile}

\* Tag 9 has no row: the mapping was requested, and nothing else.
C17_Witness ==
  /\ Finished("fetchNewsByTag")
  /\ call.args.tagId = 9
  /\ Len(call.slots) = 1
  /\ call.slots[1] = [file |-> TagFile, st |-> "ok"]
  /\ ret = Value(<< >>)

\* C18: for every id n >= 0 and every offset k in [0, 100),
\* getBatchId(getBatchId(n) + k) = getBatchId(n).
C18_Idempotent ==
  (Finished("getBatchId") /\ call.args.from # << >>) =>
    /\ call.args.n - call.args.from[1] \in 0..99
    /\ ret = Value(call.args.from[1])

\* getBatchId(200 + 99) = 200, where 200 is an earlier result.
C18_Witness ==
  /\ Finished("getBatchId")
  /\ call.args.from = <<200>>
  /\ call.args.n = 299
  /\ ret = Value(200)

\* C16: for the same remote answers and the same arguments, the build-time
\* cached, the build-time uncached and the browser implementation of
\* fetchNewsRawByIds and of fetchNewsByTag give the same result.
C16_SameResult ==
  \A i, j \in DOMAIN seen.results : seen.results[i] = seen.results[j]

\* The calls of the store, the one looked at and the ones put aside.
AllCalls == {call} \cup {tasks[t].call : t \in 1..Len(tasks)}

\* The batch files whose items a completed call put into newsRawCache: every
\* request of the call was answered with its file.
Wrote(c) ==
  IF /\ c.pc = "done"
     /\ \/ c.op = "fetchNewsRaw"
        \/ c.op = "fetchCoreData" /\ c.stage = "prefetch"
     /\ \A i \in 1..Len(c.slots) : c.slots[i].st = "ok"
  THEN {c.slots[i].file : i \in {j \in 1..Len(c.slots) : c.slots[j].file.name = "news_raw"}}
  ELSE {}

\* C20: when the fetchNewsRaw calls and the prefetch of fetchCoreData that
\* were in flight together have all resolved, newsRawCache holds an entry for
\* every item of every batch a completed call fetched and wrote: no
\* completion discards the entries of another.
C20_NoLostEntries ==
  (\A c \in AllCalls : c.pc # "wait") =>
    \A c \in AllCalls : \A f \in Wrote(c) :
      \A n \in InBatch(remote.raw, f.batch[1]) :
        n \in DOMAIN storeRawCache /\ storeRawCache[n] = Item(n)

\* C23: the cluster cache of fetchNewsArticleById is keyed by batch id: every
\* key is a multiple of 100, and after a successful fetchNewsArticleById(id)
\* the batch of id is in the cache, so that a call for any id of the batch is
\* answered from it.
C23_KeyedByBatch ==
  /\ \A k \in DOMAIN newsArticleCache : k % 100 = 0
  /\ (/\ Finished("fetchNewsArticleById") /\ impl = "cached"
      /\ ret.kind = "value" /\ ret.val # NotFound)
       => 100 * (call.args.id \div 100) \in DOMAIN newsArticleCache

\* The batch files a call has asked for or taken from a cache.
RawBatchesOf(c) ==
  {f.batch[1] : f \in {g \in c.hits \cup {c.slots[i].file : i \in 1..Len(c.slots)} :
                         g.name = "news_raw"}}

\* C25: when fetchNewsRawByIds or fetchRecentNews needs several batches, all
\* of their requests are issued before any is awaited: while the call waits,
\* no batch it still needs is without a request.
C25_JointRequests ==
  (/\ call.op \in {"fetchNewsRawByIds", "fetchRecentNews"}
   /\ call.stage = "batches" /\ call.pc = "wait")
    => \A i \in 1..Len(call.todo) :
         LET b == 100 * (call.todo[i] \div 100) IN
         \/ b \in RawBatchesOf(call)
         \/ impl = "cached" /\ b \in DOMAIN newsRawBatchCache

\* The latest raw id, as meta gives it.
LatestRawId == Max(remote.raw)

\* C26: the batches searchNews scans are the ceil(staticRetentionLimit / 100)
\* most recent ones: the highest batch ids at or below the batch of the
\* latest raw id.
C26_MostRecentBatches ==
  (Finished("searchNews") /\ impl \in {"cached", "uncached"}) =>
    RawBatchesOf(call) =
      {b \in {100 * (LatestRawId \div 100) - 100 * i :
                i \in 0..(Ceil100(StaticLimit) - 1)} : b >= 0}

\* C27: every batch a bounded operation (fetchRecentNews, searchNews) asks
\* for has its start id in [0, getBatchId(latest_id)].
C27_WithinLatest ==
  call.op \in {"fetchRecentNews", "searchNews"} =>
    \A b \in RawBatchesOf(call) : 0 <= b /\ b <= 100 * (LatestRawId \div 100)

\* C29: fetchNewsByTag returns the empty list, and raises nothing, when the
\* tag_articles resource cannot be fetched.
C29_TagFailureIsEmpty ==
  (/\ Finished("fetchNewsByTag")
   /\ call.slots # << >>
   /\ call.slots[1].file = TagFile
   /\ call.slots[1].st # "ok")
    => ret = Value(<< >>)

\* C30: fetchRecentNews and searchNews have obtained meta before they ask
\* for any batch.
C30_MetaFirst ==
  (/\ call.op \in {"fetchRecentNews", "searchNews"}
   /\ impl \in {"cached", "uncached"}
   /\ RawBatchesOf(call) # {})
    => MetaFile \in Obtained

\* The list a cluster call is answered with when no cache holds anything and
\* its request succeeds.
ClusterListOf(latestId) ==
  RemoteBody(remote, IF latestId = 0 THEN ArticlesFile
                     ELSE ClusterFile(100 * (latestId \div 100)))

\* C22: against unchanged remote data and without fetch failures, a cached
\* cluster accessor returns what the same call returns with empty caches,
\* whatever calls came before.
C22_CacheTransparent ==
  /\ (/\ Finished("fetchNewsArticles") /\ impl = "cached"
      /\ AllAnswersOk /\ ret.kind = "value")
       => ret.val = ClusterListOf(call.args.latestId)
  /\ (/\ Finished("fetchNewsArticleById") /\ impl = "cached"
      /\ AllAnswersOk /\ ret.kind = "value")
       => ret.val = Find(ClusterListOf(call.args.id), call.args.id, NotFound)

\* C24: the first batch fetchNewsArticles(latestId, limit) asks for, and the
\* batch a by-id accessor asks for, is floor(id / 100) * 100.
C24_BatchOfId ==
  /\ (/\ call.op = "fetchNewsArticles" /\ call.args.latestId # 0
      /\ call.slots # << >>)
       => call.slots[1].file = ClusterFile(100 * (call.args.latestId \div 100))
  /\ (call.op = "fetchNewsArticleById" /\ call.slots # << >>)
       => call.slots[1].file = ClusterFile(100 * (call.args.id \div 100))

\* C28: fetchNewsArticles(latestId) returns the empty list, and raises
\* nothing, when the request for the cluster batch fails or the batch file
\* is an empty list.
C28_EmptyOnFailure ==
  (/\ Finished("fetchNewsArticles") /\ impl \in {"cached", "uncached"}
   /\ call.args.latestId # 0
   /\ call.slots # << >>
   /\ \A i \in 1..Len(call.slots) :
        \/ call.slots[i].st # "ok"
        \/ RemoteBody(remote, call.slots[i].file) = << >>)
    => ret = Value(<< >>)

\* C21: once the batch cache or the file memoization table holds an entry,
\* no step removes the entry or replaces its value, the completion of another
\* request for the same key included.
C21_EntriesAreFinal ==
  [][/\ \A b \in DOMAIN newsRawBatchCache :
          b \in DOMAIN newsRawBatchCache' /\ newsRawBatchCache'[b] = newsRawBatchCache[b]
     /\ \A f \in DOMAIN fileCache :
          f \in DOMAIN fileCache' /\ fileCache'[f] = fileCache[f]]_vars

\* The file whose entry a fetchFile or fetchNewsRawBatch call reads and
\* writes.
KeyFileOf(c) ==
  IF c.op = "fetchFile" THEN BaseFile(c.args.file)
  ELSE BatchFile("news_raw", 100 * (c.args.startId \div 100))

\* C31: a failed fetchFile or fetchNewsRawBatch stores no entry for its key,
\* a call for a key without an entry issues a request, and returns the data
\* when that request succeeds.
C31_FailureStoresNothing ==
  (impl = "cached" /\ call.op \in {"fetchFile", "fetchNewsRawBatch"}) =>
    /\ (call.pc = "done" /\ call.slots # << >> /\ call.slots[1].st # "ok")
         => KeyFileOf(call) \notin CachedFiles
    /\ KeyFileOf(call) \notin call.had => call.slots # << >>
    /\ (call.pc = "done" /\ call.slots # << >> /\ call.slots[1].st = "ok")
         => /\ ret = Value(RemoteBody(remote, KeyFileOf(call)))
            /\ KeyFileOf(call) \in CachedFiles

\* A batch request of utils.ts has failed and its batch has no entry.
C31_Witness ==
  /\ impl = "cached"
  /\ Finished("fetchNewsRawBatch")
  /\ call.slots # << >>
  /\ call.slots[1].st = "http_error"
  /\ ret = Value(<< >>)
  /\ call.slots[1].file \notin CachedFiles
  /\ DOMAIN fileCache # {}

\* The latest raw id a completed fetchMeta call returned.
MetaLatest(r) == r.val.tables.news_raw.latest_id

\* C32: a fetchMeta call that is made after another fetchMeta call has
\* returned does not return a lower latest_id than that call did, also when
\* requests were in flight together and were answered out of order.  (A call
\* that is entered and returns in one step was made after every call that
\* holds a result.)
C32_MetaMonotonic ==
  [][(/\ call.pc = "idle"
      /\ call'.op = "fetchMeta" /\ call'.pc = "done"
      /\ ret'.kind = "value")
       => \A t \in 1..Len(tasks) :
            (/\ tasks[t].call.op = "fetchMeta" /\ tasks[t].call.pc = "done"
             /\ tasks[t].ret.kind = "value")
              => MetaLatest(ret') >= MetaLatest(tasks[t].ret)]_vars

\* A fetchCoreData call is suspended at one of its awaits.
CoreInFlight == \E c \in AllCalls : c.op = "fetchCoreData" /\ c.pc = "wait"

\* C33: whenever no fetchCoreData call is in flight, isLoading is false and
\* isLoaded does not hold together with an error.
C33_FlagsConsistent ==
  ~CoreInFlight =>
    /\ ~storeCore.isLoading
    /\ ~(storeCore.isLoaded /\ storeCore.error # Null)

\* The fetchCoreData calls suspended at an await, counted over the call
\* looked at and the other ones.
CoreLoads(c, ts) ==
  Cardinality({t \in 1..Len(ts) : ts[t].call.op = "fetchCoreData"
                                    /\ ts[t].call.pc = "wait"})
    + (IF c.op = "fetchCoreData" /\ c.pc = "wait" THEN 1 ELSE 0)

\* C38: a fetchCoreData call made while a load is in progress or after a
\* load has succeeded issues no request and changes no state; at most one
\* core load is in flight at any time.
C38_SingleFlight ==
  [][/\ (/\ call.pc = "idle" /\ tasks' = tasks
         /\ call'.op = "fetchCoreData"
         /\ storeCore.isLoaded \/ storeCore.isLoading)
          => /\ call'.pc = "done" /\ call'.slots = << >>
             /\ UNCHANGED <<storeCore, storeMeta, storeRawCache>>
     /\ CoreLoads(call', tasks') <= 1]_vars

\* A fetchCoreData call has returned at once while another one is loading.
C38_Witness ==
  /\ Finished("fetchCoreData")
  /\ call.slots = << >>
  /\ storeCore.isLoading
  /\ \E t \in 1..Len(tasks) : /\ tasks[t].call.op = "fetchCoreData"
                              /\ tasks[t].call.stage = "lists"
                              /\ tasks[t].call.pc = "wait"

\* The clusters a call for latestId may return: those the batch files hold
\* with an id not above latestId.
ClustersUpTo(latestId) == {c \in remote.clusters : c <= latestId}

\* C37: fetchNewsArticles(latestId, limit) with limit > 0 returns at most
\* limit clusters, and they are the most recent ones: as many as it returns,
\* they are the clusters with the highest ids not above latestId.
C37_MostRecentClusters ==
  (/\ Finished("fetchNewsArticles") /\ impl \in {"uncached", "store"}
   /\ call.args.latestId # 0 /\ call.args.limit > 0
   /\ AllAnswersOk /\ ret.kind = "value")
    => /\ Len(ret.val) <= call.args.limit
       /\ {ret.val[i].id : i \in 1..Len(ret.val)}
            = Range(Highest(ClustersUpTo(call.args.latestId), Len(ret.val)))

\* C40: no accessor modifies a cached list: every list in the batch cache
\* holds the items of its batch file, in the order of the file, whatever
\* calls filtered, sorted or cut it since it was fetched.
C40_CachedListsIntact ==
  \A b \in DOMAIN newsRawBatchCache :
    newsRawBatchCache[b] = RemoteBody(remote, BatchFile("news_raw", b))

\* fetchRecentNews took batch 100 from the cache and returned its items
\* newest first; the cached list is still in the order of the file.
C40_Witness ==
  /\ impl = "cached"
  /\ Finished("fetchRecentNews")
  /\ BatchFile("news_raw", 100) \in call.hits
  /\ ret.kind = "value"
  /\ Len(ret.val) >= 2
  /\ ret.val[1].id > ret.val[2].id
  /\ Len(newsRawBatchCache[100]) >= 2
  /\ newsRawBatchCache[100][1].id < newsRawBatchCache[100][2].id

\* C34: every fetch the data layer starts eventually completes, with data,
\* with a failure or by the timeout, even when the remote API never answers.
C34_FetchCompletes == (call.pc = "wait") ~> (call.pc = "done")

\* C35: whatever the answers of its fetches (ok, not found, HTTP error,
\* network error, a body that does not parse), a render that returns leaves
\* the article or cluster it was called for, or the error box, in <main>,
\* and no loading indicator.
C35_RenderEndsDisplayed ==
  [][\A r \in 1..Len(page.renders) :
       (page.renders[r].pc # "head" /\ page'.renders = Remove(page.renders, r))
       => \/ page'.main = Content(page.renders[r].fn, page.renders[r].id, "")
          \/ page'.main.kind = "error"]_vars

\* A render went through its catch block: a fetch of the sources or the
\* tags had resolved to a value that is no array.
C35_Witness ==
  /\ page.renders = << >>
  /\ page.main = Content("error", 0, "Failed to load article")

\* C36: once the router has handled a click and pushed the URL of an
\* article or a cluster without loading a new document, <main> holds that
\* article or cluster, or the error box.
C36_UrlMatchesContent ==
  [][(page'.entries # page.entries /\ page'.main.kind # "static" /\ page'.renders = << >>)
       => LET u == page'.entries[page'.at].url IN
          \/ page'.main = Content(u.kind, u.id, "")
          \/ page'.main.kind = "error"]_vars

\* A popstate to an entry that was pushed leaves the article or cluster of
\* the entry in <main>, or a render of it in flight.
PopstateDisplays ==
  (/\ page'.event = "popstate"
   /\ page'.at # page.at
   /\ page'.entries[page'.at].state # NullState)
  => LET u == page'.entries[page'.at].url IN
     \/ page'.main = Content(u.kind, u.id, "")
     \/ \E r \in 1..Len(page'.renders) :
          page'.renders[r] = NewRender(u.kind, u.id, FALSE, "item")

\* C39: a popstate to an entry the router or the renderer pushed displays
\* the article or cluster of the entry again, and the render a popstate
\* started leaves the history as it is.
C39_PopstateRestores ==
  [][/\ PopstateDisplays
     /\ \A r \in 1..Len(page.renders) :
          (~page.renders[r].nav /\ page'.renders = Remove(page.renders, r))
          => page'.entries = page.entries]_vars

=============================================================================
